---- MODULE Spec2Model ----
(***************************************************************************)
(* G1RegionToSpaceMapper (src/src/hotspot/share/opto/phasetype.hpp, lines  *)
(* 140-306): the mapper that commits and uncommits heap regions onto a     *)
(* page-granular virtual space, in its two strategies                      *)
(* G1RegionsLargerThanCommitSizeMapper and                                 *)
(* G1RegionsSmallerThanCommitSizeMapper.                                   *)
(*                                                                         *)
(* A caller thread runs commit_regions / uncommit_regions; every call is    *)
(* broken into the statements that touch the storage, the NUMA advisor,    *)
(* the refcount table, the commit bitmap and the listener, so that states  *)
(* in the middle of a call are states of the model.  The calls to the      *)
(* collaborators (storage, NUMA advisor, pretouch, listener) are recorded  *)
(* in `log`, the trace of the current (or, when idle, the last) call.      *)
(*                                                                         *)
(* Spec: constructions that succeed, calls that respect the precondition.  *)
(* SpecCtor: also constructions whose guarantees fail.  SpecUnchecked:     *)
(* also calls that break the precondition.  SpecConc: a second thread      *)
(* (`other`) whose call runs concurrently with the first one's.  SpecOom:   *)
(* a physical commit may fail.  SpecRange: calls on ranges outside the     *)
(* bitmap.  SpecFactor: commit factors that do not divide evenly.          *)
(*                                                                         *)
(* Http1HeaderParser (same file, lines 757-1081): the incremental parser   *)
(* of an HTTP/1.x status line and header block.  A caller hands it buffer  *)
(* after buffer through parse; a call is broken into the iterations of the *)
(* loop of parse and of the inner loops of readResumeStatusLine and        *)
(* readResumeHeader.  SpecParser: a parser fed arbitrary splits of         *)
(* well-formed and malformed inputs.  SpecParserFair: the same, with the   *)
(* calling thread running on.  The mapper and the parser do not interact:  *)
(* the specifications of one leave the other in its initial state.         *)
(***************************************************************************)
EXTENDS Integers, Sequences, FiniteSets

\* ---------------------------------------------------------------- bounds
\* Largest number of regions (bits of the commit bitmap) a constructed
\* mapper may have.
MaxRegions == 3
\* Largest reservation size in bytes.
MaxReservationSize == 6
\* Base address of the reservation (rs.base()).
ReservationBase == 16

\* Construction parameters that are tried.
PageSizes == {1, 2, 4}
Granularities == {1, 2, 4, 8}
CommitFactors == {1, 2}
MemoryTypes == {"mtJavaHeap", "mtGC"}

\* size_t const NoPage = ~(size_t)0
NoPage == -1

VARIABLES
  \* construction arguments and flags
  rs_size,            \* rs.size()
  page_size,          \* _storage.page_size()
  region_granularity, \* _region_granularity
  commit_factor,      \* constructor argument commit_factor
  memory_type,        \* _memory_type
  AlwaysPreTouch,     \* the VM flag AlwaysPreTouch
  kind,               \* the class create_mapper instantiated
  pages_per_region,   \* _pages_per_region (Larger)
  regions_per_page,   \* _regions_per_page (Smaller)
  \* mapper state
  commit_map,         \* _commit_map: region index -> bit
  refcounts,          \* _refcounts: page index -> count (Smaller)
  listener,           \* _listener: "NULL" or "bound"
  committed,          \* _storage: the set of pages physically committed
  \* the caller's frame
  pc,                 \* statement the call is at, "idle" between calls
  op,                 \* the call: [name, start_idx, num_regions]
  region_idx,         \* loop variable (region_idx / i)
  old_refcount,       \* local old_refcount
  zero_filled,        \* local zero_filled
  all_zero_filled,    \* local all_zero_filled
  first_committed,    \* local first_committed
  num_committed,      \* local num_committed
  \* history
  log,                \* collaborator calls issued by the current/last call
  pre,                \* mapper state and listener at entry of the call
  rt,                 \* refcounts at entry of the commit this uncommit undoes
  \* second caller
  other,              \* frame (pc, op, locals, log) of the thread not running
  \* Http1HeaderParser: the object's fields
  state,              \* state: one of State
  sb,                 \* sb: the characters accumulated so far
  statusLine,         \* statusLine: Null or the status line
  responseCode,       \* responseCode
  headers,            \* headers: Null or the header map
  privateMap,         \* privateMap: Null or name -> list of values
  size,               \* size: the accounted size of the header block
  MAX_HTTP_HEADER_SIZE, \* static final, read from jdk.http.maxHeaderSize
  \* the frame of the parse call
  ppc,                \* "idle" between calls, else the loop the call is in
  remaining,          \* input.remaining()
  count,              \* local count of readResumeStatusLine/readResumeHeader
  max,                \* local max of readResumeStatusLine/readResumeHeader
  result,             \* how the last call ended: a boolean or an exception
  \* history
  fed,                \* every byte read from the buffers so far, in order
  thrown              \* number of parse calls that ended with an exception

config == <<rs_size, page_size, region_granularity, commit_factor, memory_type,
            AlwaysPreTouch, kind, pages_per_region, regions_per_page>>
mapper == <<commit_map, refcounts, committed>>
locals == <<region_idx, old_refcount, zero_filled, all_zero_filled,
            first_committed, num_committed>>
parser == <<state, sb, statusLine, responseCode, headers, privateMap, size,
            MAX_HTTP_HEADER_SIZE, ppc, remaining, count, max, result, fed,
            thrown>>
mapper_vars == <<config, mapper, listener, pc, op, locals, log, pre, rt,
                 other>>
vars == <<mapper_vars, parser>>

\* ------------------------------------------------------------- utilities
\* is_power_of_2 (utilities/powerOfTwo): x > 0 and x & (x - 1) == 0.
RECURSIVE is_power_of_2(_)
is_power_of_2(x) ==
  IF x <= 0 THEN FALSE
  ELSE IF x = 1 THEN TRUE
  ELSE IF x % 2 = 1 THEN FALSE
  ELSE is_power_of_2(x \div 2)

\* align_up(size, alignment)
align_up(sz, alignment) == ((sz + alignment - 1) \div alignment) * alignment

\* Number of bits of _commit_map, as the constructor sizes it.
commit_map_size(rs, factor, granularity) == (rs * factor) \div granularity

\* Number of entries of _refcounts, as the constructor initializes it.
refcounts_size(rs, page) == align_up(rs, page) \div page

Regions == DOMAIN commit_map
Pages == DOMAIN refcounts

\* The half-open range [from, to).
Range(from, to) == from .. (to - 1)

\* _storage.page_start(page_idx): address of the first byte of a page.
page_start(page_idx) == ReservationBase + page_idx * page_size

\* uintptr_t region_idx_to_page_idx(uint region)
region_idx_to_page_idx(region) == region \div regions_per_page

\* Pages of the storage that back a region.
PagesOf(r) ==
  IF kind = "Larger"
  THEN Range(r * pages_per_region, (r + 1) * pages_per_region)
  ELSE {region_idx_to_page_idx(r)}

\* Collaborator call records.
Event(ev, idx, num, zf, addr, bytes) ==
  [ev |-> ev, idx |-> idx, num |-> num, zf |-> zf, addr |-> addr, bytes |-> bytes]
CommitEv(page, num, zf) == Event("commit", page, num, zf, 0, 0)
UncommitEv(page, num) == Event("uncommit", page, num, FALSE, 0, 0)
PretouchEv(page, num) == Event("pretouch", page, num, FALSE, 0, 0)
NumaEv(addr, bytes, region) == Event("numa", region, 1, FALSE, addr, bytes)
OnCommitEv(start, num, zf) == Event("on_commit", start, num, zf, 0, 0)

\* The WorkGang* argument of commit_regions: NULL or a gang.
WorkGangs == {"NULL", "gang"}

NoOp == [name |-> "none", start_idx |-> 0, num_regions |-> 0,
         pretouch_gang |-> "NULL"]

\* Frame of a thread at a given point of a call, with the locals as
\* commit_regions / uncommit_regions declare them.
Frame(at, call, region) ==
  [pc |-> at, op |-> call, region_idx |-> region, old_refcount |-> 0,
   zero_filled |-> FALSE, all_zero_filled |-> TRUE,
   first_committed |-> NoPage, num_committed |-> 0, log |-> <<>>,
   interleaved |-> FALSE]

\* No second thread.
NoFrame == Frame("none", NoOp, 0)

\* create_mapper with > for >=.
create_mapper_strict(page, granularity, factor) ==
  IF granularity > page * factor THEN "Larger" ELSE "Smaller"

\* ---------------------------------------------------------- construction
\* G1RegionToSpaceMapper::create_mapper: the class it instantiates.
create_mapper(page, granularity, factor) ==
  IF granularity >= page * factor THEN "Larger" ELSE "Smaller"

\* ctor_guarantees without the power-of-two check of the granularity.
ctor_guarantees_page_only(page, granularity, factor) ==
  /\ is_power_of_2(page)
  /\ IF create_mapper(page, granularity, factor) = "Larger"
     THEN granularity >= page
     ELSE page * factor >= granularity

\* The guarantees of the constructors: the base class's power-of-two checks
\* and the granularity check of the class create_mapper chose.
ctor_guarantees(page, granularity, factor) ==
  /\ is_power_of_2(page)
  /\ is_power_of_2(granularity)
  /\ IF create_mapper(page, granularity, factor) = "Larger"
     THEN granularity >= page
     ELSE page * factor >= granularity

\* ------------------------------------------------- Http1HeaderParser
\* Characters are one-element strings; a String or the content of a
\* StringBuilder is a sequence of characters. A reference that may be null
\* is Null or Some(v).
CR == "CR"
LF == "LF"
HT == "HT"
SP == "SP"

Null == <<>>
Some(v) == <<v>>
Get(ref) == ref[1]

K == 1024

\* enum State.
State ==
  {"INITIAL", "STATUS_LINE", "STATUS_LINE_FOUND_CR", "STATUS_LINE_FOUND_LF",
   "STATUS_LINE_END", "STATUS_LINE_END_CR", "STATUS_LINE_END_LF", "HEADER",
   "HEADER_FOUND_CR", "HEADER_FOUND_LF", "HEADER_FOUND_CR_LF",
   "HEADER_FOUND_CR_LF_CR", "FINISHED"}

\* new HashMap<>(): no name is mapped.
EmptyMap == [name \in {} |-> <<>>]

\* A parser as its field initializers leave it, no parse call made yet;
\* limit is the value MAX_HTTP_HEADER_SIZE was given when the class was
\* initialized.
Http1HeaderParser(limit) ==
  /\ state = "INITIAL"
  /\ sb = <<>>
  /\ statusLine = Null
  /\ responseCode = 0
  /\ headers = Null
  /\ privateMap = Some(EmptyMap)
  /\ size = 0
  /\ MAX_HTTP_HEADER_SIZE = limit
  /\ ppc = "idle"
  /\ remaining = 0
  /\ count = 0
  /\ max = 0
  /\ result = "none"
  /\ fed = <<>>
  /\ thrown = 0

\* State after create_mapper(rs, page_size, region_granularity,
\* commit_factor, memory_type) with sizes drawn from the given sets: bitmap
\* and refcount table all clear, no listener, nothing committed. When a
\* guarantee of a constructor fails the VM stops (pc = "fatal"): the bitmap
\* was sized by the initializers, no operation runs afterwards.
Construct(page_sizes, granularities, commit_factors) ==
  /\ rs_size \in 1 .. MaxReservationSize
  /\ page_size \in page_sizes
  /\ region_granularity \in granularities
  /\ commit_factor \in commit_factors
  /\ memory_type \in MemoryTypes
  /\ AlwaysPreTouch \in BOOLEAN
  /\ commit_map_size(rs_size, commit_factor, region_granularity) \in 1 .. MaxRegions
  /\ kind = create_mapper(page_size, region_granularity, commit_factor)
  /\ pages_per_region =
       IF kind = "Larger" THEN region_granularity \div (page_size * commit_factor) ELSE 0
  /\ regions_per_page =
       IF kind = "Smaller" THEN (page_size * commit_factor) \div region_granularity ELSE 0
  /\ commit_map =
       [r \in 0 .. (commit_map_size(rs_size, commit_factor, region_granularity) - 1) |-> FALSE]
  /\ refcounts =
       IF kind = "Smaller"
       THEN [p \in 0 .. (refcounts_size(rs_size, page_size) - 1) |-> 0]
       ELSE <<>>
  /\ listener = "NULL"
  /\ committed = {}
  /\ pc = IF ctor_guarantees(page_size, region_granularity, commit_factor)
          THEN "idle" ELSE "fatal"
  /\ op = NoOp
  /\ region_idx = 0
  /\ old_refcount = 0
  /\ zero_filled = FALSE
  /\ all_zero_filled = TRUE
  /\ first_committed = NoPage
  /\ num_committed = 0
  /\ log = <<>>
  /\ pre = [commit_map |-> commit_map, refcounts |-> refcounts,
          committed |-> committed, listener |-> listener]
  /\ rt = [on |-> FALSE, refcounts |-> <<>>]
  /\ other = NoFrame

\* State after a create_mapper that returned, for the sizes of the bounds
\* (all powers of two).
Init ==
  /\ Construct(PageSizes, Granularities, CommitFactors)
  /\ pc = "idle"
  /\ Http1HeaderParser(384 * K)

\* set_mapping_changed_listener: binds the listener (once).
set_listener ==
  /\ pc = "idle"
  /\ listener = "NULL"
  /\ listener' = "bound"
  /\ UNCHANGED <<config, parser, other, mapper, pc, op, locals, log, pre, rt>>

\* fire_on_commit without the test for a bound listener.
fire_on_commit_unchecked(start_idx, num_regions, zf) ==
  log' = Append(log, OnCommitEv(start_idx, num_regions, zf))

\* G1RegionToSpaceMapper::fire_on_commit
fire_on_commit(start_idx, num_regions, zf) ==
  IF listener # "NULL"
  THEN log' = Append(log, OnCommitEv(start_idx, num_regions, zf))
  ELSE log' = log

\* Ranges a caller passes: non-empty and inside the bitmap.
ValidRange(start_idx, num_regions) ==
  /\ start_idx \in Regions
  /\ num_regions >= 1
  /\ start_idx + num_regions - 1 \in Regions

\* Entry of a call: the frame is set up and the state at entry is recorded.
Enter(name, start_idx, num_regions, pretouch_gang, first_pc) ==
  /\ pc = "idle"
  /\ pc' = first_pc
  /\ op' = [name |-> name, start_idx |-> start_idx, num_regions |-> num_regions,
            pretouch_gang |-> pretouch_gang]
  /\ region_idx' = start_idx
  /\ old_refcount' = 0
  /\ zero_filled' = FALSE
  /\ all_zero_filled' = TRUE
  /\ first_committed' = NoPage
  /\ num_committed' = 0
  /\ log' = <<>>
  /\ pre' = [commit_map |-> commit_map, refcounts |-> refcounts,
             committed |-> committed, listener |-> listener]
  /\ rt' = IF /\ name = "uncommit_regions"
              /\ op.name = "commit_regions"
              /\ op.start_idx = start_idx
              /\ op.num_regions = num_regions
           THEN [on |-> TRUE, refcounts |-> pre.refcounts]
           ELSE [on |-> FALSE, refcounts |-> <<>>]
  /\ UNCHANGED <<config, parser, mapper, listener>>

\* Return of a call: the frame is popped; op, log, pre and rt keep the
\* record of the call that just ended.
Return ==
  /\ pc' = "idle"
  /\ region_idx' = 0
  /\ old_refcount' = 0
  /\ zero_filled' = FALSE
  /\ all_zero_filled' = TRUE
  /\ first_committed' = NoPage
  /\ num_committed' = 0

\* What the caller guarantees before commit_regions (asserted at line 243).
CanCommit(start_idx, num_regions) ==
  \A r \in Range(start_idx, start_idx + num_regions) : ~commit_map[r]

\* What the caller guarantees before uncommit_regions (asserted at line 275).
CanUncommit(start_idx, num_regions) ==
  \A r \in Range(start_idx, start_idx + num_regions) : commit_map[r]

\* _storage.commit(start_page, size_in_pages): the pages become committed;
\* the result (zero filled or not) is the platform's.
storage_commit(start_page, size_in_pages) ==
  committed' = committed \cup Range(start_page, start_page + size_in_pages)

\* _storage.uncommit(start_page, size_in_pages)
storage_uncommit(start_page, size_in_pages) ==
  committed' = committed \ Range(start_page, start_page + size_in_pages)

\* ------------------------------ G1RegionsSmallerThanCommitSizeMapper
\* commit_regions, lines 233-242: entry, locals initialised.
smaller_commit_regions(start_idx, num_regions, pretouch_gang) ==
  /\ kind = "Smaller"
  /\ ValidRange(start_idx, num_regions)
  /\ CanCommit(start_idx, num_regions)
  /\ Enter("commit_regions", start_idx, num_regions, pretouch_gang, "sc_commit")
  /\ UNCHANGED other

\* sc_commit that commits the page whatever its refcount.
sc_commit_always ==
  /\ pc = "sc_commit"
  /\ LET page_idx == region_idx_to_page_idx(region_idx)
         old == refcounts[page_idx]
     IN /\ old_refcount' = old
        /\ IF old >= 0
           THEN /\ IF first_committed = NoPage
                   THEN first_committed' = page_idx /\ num_committed' = 1
                   ELSE first_committed' = first_committed
                        /\ num_committed' = num_committed + 1
                /\ \E zf \in BOOLEAN :
                     /\ storage_commit(page_idx, 1)
                     /\ zero_filled' = zf
                     /\ log' = Append(log, CommitEv(page_idx, 1, zf))
           ELSE /\ zero_filled' = FALSE
                /\ UNCHANGED <<first_committed, num_committed, committed, log>>
  /\ pc' = "sc_numa"
  /\ UNCHANGED <<config, parser, other, commit_map, refcounts, listener, op, region_idx,
                 all_zero_filled, pre, rt>>

\* sc_commit with zero_filled defaulting to true for a page already
\* committed.
sc_commit_default_true ==
  /\ pc = "sc_commit"
  /\ LET page_idx == region_idx_to_page_idx(region_idx)
         old == refcounts[page_idx]
     IN /\ old_refcount' = old
        /\ IF old = 0
           THEN /\ IF first_committed = NoPage
                   THEN first_committed' = page_idx /\ num_committed' = 1
                   ELSE first_committed' = first_committed
                        /\ num_committed' = num_committed + 1
                /\ \E zf \in BOOLEAN :
                     /\ storage_commit(page_idx, 1)
                     /\ zero_filled' = zf
                     /\ log' = Append(log, CommitEv(page_idx, 1, zf))
           ELSE /\ zero_filled' = TRUE
                /\ UNCHANGED <<first_committed, num_committed, committed, log>>
  /\ pc' = "sc_numa"
  /\ UNCHANGED <<config, parser, other, commit_map, refcounts, listener, op, region_idx,
                 all_zero_filled, pre, rt>>

\* Lines 243-255: read the page's refcount; when it is zero extend the run
\* of first-time pages and commit the page.
sc_commit ==
  /\ pc = "sc_commit"
  /\ LET page_idx == region_idx_to_page_idx(region_idx)
         old == refcounts[page_idx]
     IN /\ old_refcount' = old
        /\ IF old = 0
           THEN /\ IF first_committed = NoPage
                   THEN first_committed' = page_idx /\ num_committed' = 1
                   ELSE first_committed' = first_committed
                        /\ num_committed' = num_committed + 1
                /\ \E zf \in BOOLEAN :
                     /\ storage_commit(page_idx, 1)
                     /\ zero_filled' = zf
                     /\ log' = Append(log, CommitEv(page_idx, 1, zf))
           ELSE /\ zero_filled' = FALSE
                /\ UNCHANGED <<first_committed, num_committed, committed, log>>
  /\ pc' = "sc_numa"
  /\ UNCHANGED <<config, parser, other, commit_map, refcounts, listener, op, region_idx,
                 all_zero_filled, pre, rt>>

\* sc_numa with all_zero_filled assigned instead of and-ed.
sc_numa_last_only ==
  /\ pc = "sc_numa"
  /\ LET page_idx == region_idx_to_page_idx(region_idx)
     IN /\ IF old_refcount = 0 /\ memory_type = "mtJavaHeap"
           THEN log' = Append(log, NumaEv(page_start(page_idx), page_size, region_idx))
           ELSE log' = log
        /\ all_zero_filled' = zero_filled
        /\ refcounts' = [refcounts EXCEPT ![page_idx] = old_refcount + 1]
  /\ pc' = "sc_set_bit"
  /\ UNCHANGED <<config, parser, other, commit_map, committed, listener, op, region_idx,
                 old_refcount, zero_filled, first_committed, num_committed, pre, rt>>

\* sc_numa without the test of the memory type.
sc_numa_any_type ==
  /\ pc = "sc_numa"
  /\ LET page_idx == region_idx_to_page_idx(region_idx)
     IN /\ IF old_refcount = 0
           THEN log' = Append(log, NumaEv(page_start(page_idx), page_size, region_idx))
           ELSE log' = log
        /\ all_zero_filled' = (all_zero_filled /\ zero_filled)
        /\ refcounts' = [refcounts EXCEPT ![page_idx] = old_refcount + 1]
  /\ pc' = "sc_set_bit"
  /\ UNCHANGED <<config, parser, other, commit_map, committed, listener, op, region_idx,
                 old_refcount, zero_filled, first_committed, num_committed, pre, rt>>

\* sc_numa with the refcount set to one instead of incremented.
sc_numa_reset ==
  /\ pc = "sc_numa"
  /\ LET page_idx == region_idx_to_page_idx(region_idx)
     IN /\ IF old_refcount = 0 /\ memory_type = "mtJavaHeap"
           THEN log' = Append(log, NumaEv(page_start(page_idx), page_size, region_idx))
           ELSE log' = log
        /\ all_zero_filled' = (all_zero_filled /\ zero_filled)
        /\ refcounts' = [refcounts EXCEPT ![page_idx] = 1]
  /\ pc' = "sc_set_bit"
  /\ UNCHANGED <<config, parser, other, commit_map, committed, listener, op, region_idx,
                 old_refcount, zero_filled, first_committed, num_committed, pre, rt>>

\* Lines 256-264: NUMA request for a page just committed (heap only), the
\* flag is folded into all_zero_filled, the refcount is incremented.
sc_numa ==
  /\ pc = "sc_numa"
  /\ LET page_idx == region_idx_to_page_idx(region_idx)
     IN /\ IF old_refcount = 0 /\ memory_type = "mtJavaHeap"
           THEN log' = Append(log, NumaEv(page_start(page_idx), page_size, region_idx))
           ELSE log' = log
        /\ all_zero_filled' = (all_zero_filled /\ zero_filled)
        /\ refcounts' = [refcounts EXCEPT ![page_idx] = old_refcount + 1]
  /\ pc' = "sc_set_bit"
  /\ UNCHANGED <<config, parser, other, commit_map, committed, listener, op, region_idx,
                 old_refcount, zero_filled, first_committed, num_committed, pre, rt>>

\* Line 265 and the loop step of line 242.
sc_set_bit ==
  /\ pc = "sc_set_bit"
  /\ commit_map' = [commit_map EXCEPT ![region_idx] = TRUE]
  /\ region_idx' = region_idx + 1
  /\ pc' = IF region_idx + 1 < op.start_idx + op.num_regions
           THEN "sc_commit" ELSE "sc_pretouch"
  /\ UNCHANGED <<config, parser, other, refcounts, committed, listener, op, old_refcount,
                 zero_filled, all_zero_filled, first_committed, num_committed,
                 log, pre, rt>>

\* sc_pretouch without the test num_committed > 0.
sc_pretouch_unguarded ==
  /\ pc = "sc_pretouch"
  /\ IF AlwaysPreTouch
     THEN log' = Append(log, PretouchEv(first_committed, num_committed))
     ELSE log' = log
  /\ pc' = "sc_fire"
  /\ UNCHANGED <<config, parser, other, mapper, listener, op, locals, pre, rt>>

\* Lines 267-269: one pretouch over the run of first-time pages.
sc_pretouch ==
  /\ pc = "sc_pretouch"
  /\ IF AlwaysPreTouch /\ num_committed > 0
     THEN log' = Append(log, PretouchEv(first_committed, num_committed))
     ELSE log' = log
  /\ pc' = "sc_fire"
  /\ UNCHANGED <<config, parser, other, mapper, listener, op, locals, pre, rt>>

\* Line 270: the listener is notified and the call returns.
sc_fire ==
  /\ pc = "sc_fire"
  /\ fire_on_commit(op.start_idx, op.num_regions, all_zero_filled)
  /\ Return
  /\ UNCHANGED <<config, parser, other, mapper, listener, op, pre, rt>>

\* uncommit_regions, lines 273-274: entry.
smaller_uncommit_regions(start_idx, num_regions) ==
  /\ kind = "Smaller"
  /\ ValidRange(start_idx, num_regions)
  /\ CanUncommit(start_idx, num_regions)
  /\ Enter("uncommit_regions", start_idx, num_regions, "NULL", "su_uncommit")
  /\ UNCHANGED other

\* Lines 275-281: read the page's refcount; uncommit the page when this
\* region is its last user.
su_uncommit ==
  /\ pc = "su_uncommit"
  /\ LET idx == region_idx_to_page_idx(region_idx)
         old == refcounts[idx]
     IN /\ old_refcount' = old
        /\ IF old = 1
           THEN /\ storage_uncommit(idx, 1)
                /\ log' = Append(log, UncommitEv(idx, 1))
           ELSE UNCHANGED <<committed, log>>
  /\ pc' = "su_clear_bit"
  /\ UNCHANGED <<config, parser, other, commit_map, refcounts, listener, op, region_idx,
                 zero_filled, all_zero_filled, first_committed, num_committed,
                 pre, rt>>

\* su_clear_bit that writes the refcount back without decrementing it.
su_clear_bit_keep ==
  /\ pc = "su_clear_bit"
  /\ refcounts' = [refcounts EXCEPT
                     ![region_idx_to_page_idx(region_idx)] = old_refcount]
  /\ commit_map' = [commit_map EXCEPT ![region_idx] = FALSE]
  /\ IF region_idx + 1 < op.start_idx + op.num_regions
     THEN /\ pc' = "su_uncommit"
          /\ region_idx' = region_idx + 1
          /\ UNCHANGED <<old_refcount, zero_filled, all_zero_filled,
                         first_committed, num_committed>>
     ELSE Return
  /\ UNCHANGED <<config, parser, other, committed, listener, op, log, pre, rt>>

\* su_clear_bit that writes the refcount of the page after the region's.
su_clear_bit_next_page ==
  /\ pc = "su_clear_bit"
  /\ refcounts' = [refcounts EXCEPT
                     ![region_idx_to_page_idx(region_idx) + 1] = old_refcount - 1]
  /\ commit_map' = [commit_map EXCEPT ![region_idx] = FALSE]
  /\ IF region_idx + 1 < op.start_idx + op.num_regions
     THEN /\ pc' = "su_uncommit"
          /\ region_idx' = region_idx + 1
          /\ UNCHANGED <<old_refcount, zero_filled, all_zero_filled,
                         first_committed, num_committed>>
     ELSE Return
  /\ UNCHANGED <<config, parser, other, committed, listener, op, log, pre, rt>>

\* Lines 282-283 and the loop step of line 274.
su_clear_bit ==
  /\ pc = "su_clear_bit"
  /\ refcounts' = [refcounts EXCEPT
                     ![region_idx_to_page_idx(region_idx)] = old_refcount - 1]
  /\ commit_map' = [commit_map EXCEPT ![region_idx] = FALSE]
  /\ IF region_idx + 1 < op.start_idx + op.num_regions
     THEN /\ pc' = "su_uncommit"
          /\ region_idx' = region_idx + 1
          /\ UNCHANGED <<old_refcount, zero_filled, all_zero_filled,
                         first_committed, num_committed>>
     ELSE Return
  /\ UNCHANGED <<config, parser, other, committed, listener, op, log, pre, rt>>

\* ------------------------------- G1RegionsLargerThanCommitSizeMapper
\* commit_regions, line 177: entry.
larger_commit_regions(start_idx, num_regions, pretouch_gang) ==
  /\ kind = "Larger"
  /\ ValidRange(start_idx, num_regions)
  /\ CanCommit(start_idx, num_regions)
  /\ Enter("commit_regions", start_idx, num_regions, pretouch_gang, "lc_commit")
  /\ UNCHANGED other

\* lc_commit with the number of regions taken for the number of pages.
lc_commit_regions_as_pages ==
  /\ pc = "lc_commit"
  /\ LET start_page == op.start_idx * pages_per_region
         size_in_pages == op.num_regions
     IN \E zf \in BOOLEAN :
          /\ storage_commit(start_page, size_in_pages)
          /\ zero_filled' = zf
          /\ log' = Append(log, CommitEv(start_page, size_in_pages, zf))
  /\ pc' = "lc_numa"
  /\ UNCHANGED <<config, parser, other, commit_map, refcounts, listener, op, region_idx,
                 old_refcount, all_zero_filled, first_committed, num_committed,
                 pre, rt>>

\* Lines 178-180: one storage commit over the pages of all the regions.
lc_commit ==
  /\ pc = "lc_commit"
  /\ LET start_page == op.start_idx * pages_per_region
         size_in_pages == op.num_regions * pages_per_region
     IN \E zf \in BOOLEAN :
          /\ storage_commit(start_page, size_in_pages)
          /\ zero_filled' = zf
          /\ log' = Append(log, CommitEv(start_page, size_in_pages, zf))
  /\ pc' = "lc_numa"
  /\ UNCHANGED <<config, parser, other, commit_map, refcounts, listener, op, region_idx,
                 old_refcount, all_zero_filled, first_committed, num_committed,
                 pre, rt>>

\* numa_requests with the size of one page as the size of a region.
RECURSIVE numa_requests_one_page(_, _)
numa_requests_one_page(from, to) ==
  IF from >= to THEN <<>>
  ELSE <<NumaEv(page_start(from * pages_per_region),
                page_size, from)>>
       \o numa_requests_one_page(from + 1, to)

\* The NUMA requests of lines 182-186 for regions from..to-1, in order.
RECURSIVE numa_requests(_, _)
numa_requests(from, to) ==
  IF from >= to THEN <<>>
  ELSE <<NumaEv(page_start(from * pages_per_region),
                page_size * pages_per_region, from)>>
       \o numa_requests(from + 1, to)

\* Lines 181-187: for heap memory, one NUMA request per region.
lc_numa ==
  /\ pc = "lc_numa"
  /\ IF memory_type = "mtJavaHeap"
     THEN log' = log \o numa_requests(op.start_idx, op.start_idx + op.num_regions)
     ELSE log' = log
  /\ pc' = "lc_pretouch"
  /\ UNCHANGED <<config, parser, other, mapper, listener, op, locals, pre, rt>>

\* lc_pretouch issuing the pretouch only for a non-NULL pretouch_gang.
lc_pretouch_if_gang ==
  /\ pc = "lc_pretouch"
  /\ IF AlwaysPreTouch /\ op.pretouch_gang # "NULL"
     THEN log' = Append(log, PretouchEv(op.start_idx * pages_per_region,
                                        op.num_regions * pages_per_region))
     ELSE log' = log
  /\ pc' = "lc_set_range"
  /\ UNCHANGED <<config, parser, other, mapper, listener, op, locals, pre, rt>>

\* lc_pretouch with the bits of the call set while the pretouch runs.
lc_pretouch_sets_bits ==
  /\ pc = "lc_pretouch"
  /\ IF AlwaysPreTouch
     THEN log' = Append(log, PretouchEv(op.start_idx * pages_per_region,
                                        op.num_regions * pages_per_region))
     ELSE log' = log
  /\ commit_map' = [r \in Regions |->
                      IF r \in Range(op.start_idx, op.start_idx + op.num_regions)
                      THEN TRUE ELSE commit_map[r]]
  /\ pc' = "lc_fire"
  /\ UNCHANGED <<config, parser, other, refcounts, committed, listener, op, locals, pre, rt>>

\* Lines 188-190: pretouch of the pages just committed.
lc_pretouch ==
  /\ pc = "lc_pretouch"
  /\ IF AlwaysPreTouch
     THEN log' = Append(log, PretouchEv(op.start_idx * pages_per_region,
                                        op.num_regions * pages_per_region))
     ELSE log' = log
  /\ pc' = "lc_set_range"
  /\ UNCHANGED <<config, parser, other, mapper, listener, op, locals, pre, rt>>

\* lc_set_range with the end of the range taken one region short.
lc_set_range_short ==
  /\ pc = "lc_set_range"
  /\ commit_map' = [r \in Regions |->
                      IF r \in Range(op.start_idx, op.start_idx + op.num_regions - 1)
                      THEN TRUE ELSE commit_map[r]]
  /\ pc' = "lc_fire"
  /\ UNCHANGED <<config, parser, other, refcounts, committed, listener, op, locals, log, pre, rt>>

\* Line 191: _commit_map.set_range(start_idx, start_idx + num_regions).
lc_set_range ==
  /\ pc = "lc_set_range"
  /\ commit_map' = [r \in Regions |->
                      IF r \in Range(op.start_idx, op.start_idx + op.num_regions)
                      THEN TRUE ELSE commit_map[r]]
  /\ pc' = "lc_fire"
  /\ UNCHANGED <<config, parser, other, refcounts, committed, listener, op, locals, log, pre, rt>>

\* Line 192: the listener is notified and the call returns.
lc_fire ==
  /\ pc = "lc_fire"
  /\ fire_on_commit(op.start_idx, op.num_regions, zero_filled)
  /\ Return
  /\ UNCHANGED <<config, parser, other, mapper, listener, op, pre, rt>>

\* uncommit_regions, line 195: entry.
larger_uncommit_regions(start_idx, num_regions) ==
  /\ kind = "Larger"
  /\ ValidRange(start_idx, num_regions)
  /\ CanUncommit(start_idx, num_regions)
  /\ Enter("uncommit_regions", start_idx, num_regions, "NULL", "lu_uncommit")
  /\ UNCHANGED other

\* lu_uncommit with the number of regions taken for the number of pages.
lu_uncommit_regions_as_pages ==
  /\ pc = "lu_uncommit"
  /\ storage_uncommit(op.start_idx * pages_per_region, op.num_regions)
  /\ log' = Append(log, UncommitEv(op.start_idx * pages_per_region,
                                   op.num_regions))
  /\ pc' = "lu_clear_range"
  /\ UNCHANGED <<config, parser, other, commit_map, refcounts, listener, op, locals, pre, rt>>

\* Line 196: one storage uncommit over the pages of all the regions.
lu_uncommit ==
  /\ pc = "lu_uncommit"
  /\ storage_uncommit(op.start_idx * pages_per_region,
                      op.num_regions * pages_per_region)
  /\ log' = Append(log, UncommitEv(op.start_idx * pages_per_region,
                                   op.num_regions * pages_per_region))
  /\ pc' = "lu_clear_range"
  /\ UNCHANGED <<config, parser, other, commit_map, refcounts, listener, op, locals, pre, rt>>

\* Line 197: _commit_map.clear_range(start_idx, start_idx + num_regions).
lu_clear_range ==
  /\ pc = "lu_clear_range"
  /\ commit_map' = [r \in Regions |->
                      IF r \in Range(op.start_idx, op.start_idx + op.num_regions)
                      THEN FALSE ELSE commit_map[r]]
  /\ Return
  /\ UNCHANGED <<config, parser, other, refcounts, committed, listener, op, log, pre, rt>>

\* ------------------------------------------------------- specification
commit_regions ==
  \E start_idx \in Regions, num_regions \in 1 .. MaxRegions,
     pretouch_gang \in WorkGangs :
    \/ larger_commit_regions(start_idx, num_regions, pretouch_gang)
    \/ smaller_commit_regions(start_idx, num_regions, pretouch_gang)

uncommit_regions ==
  \E start_idx \in Regions, num_regions \in 1 .. MaxRegions :
    \/ larger_uncommit_regions(start_idx, num_regions)
    \/ smaller_uncommit_regions(start_idx, num_regions)

Next ==
  \/ set_listener
  \/ commit_regions
  \/ uncommit_regions
  \/ lc_commit \/ lc_numa \/ lc_pretouch \/ lc_set_range \/ lc_fire
  \/ lu_uncommit \/ lu_clear_range
  \/ sc_commit \/ sc_numa \/ sc_set_bit \/ sc_pretouch \/ sc_fire
  \/ su_uncommit \/ su_clear_bit

Spec == Init /\ [][Next]_vars

\* ------------------------------------------------------------ properties
\* The call `name` has returned and nothing was called since.
Returned(name) == pc = "idle" /\ op.name = name

\* Regions of the current (or last) call.
CallRange == Range(op.start_idx, op.start_idx + op.num_regions)

\* The collaborator calls of one kind, in the order they were issued.
Calls(ev) == SelectSeq(log, LAMBDA e : e.ev = ev)

\* Storage commits / uncommits of the call that cover page p.
CallsOn(ev, p) ==
  SelectSeq(log, LAMBDA e : e.ev = ev /\ p \in Range(e.idx, e.idx + e.num))

\* Number of committed regions that share page p.
RegionsOn(p) == {r \in Regions : region_idx_to_page_idx(r) = p}
CommittedRegionsOn(p) == {r \in RegionsOn(p) : commit_map[r]}

\* C1 - Bitmap accuracy: in both strategies, when commit_regions(s,n) has
\* returned every bit of [s,s+n) is set and every other bit has the value it
\* had at entry; when uncommit_regions(s,n) has returned every bit of
\* [s,s+n) is clear.
C1_BitmapAccuracy ==
  /\ Returned("commit_regions") =>
       \A r \in Regions :
         commit_map[r] = (IF r \in CallRange THEN TRUE ELSE pre.commit_map[r])
  /\ Returned("uncommit_regions") =>
       \A r \in CallRange : ~commit_map[r]

\* A commit of part of the bitmap returned while another region was, and
\* stayed, committed and a third stayed clear.
C1_Witness ==
  /\ Returned("commit_regions")
  /\ \E r \in Regions \ CallRange : commit_map[r] /\ pre.commit_map[r]
  /\ \E r \in Regions \ CallRange : ~commit_map[r]

\* C2 - Refcount invariant (Smaller): every refcount is within
\* 0..regions_per_page in every state, and between calls it equals the number
\* of committed regions of its page and is positive exactly when the storage
\* has the page committed.
C2_RefcountInvariant ==
  kind = "Smaller" =>
    /\ \A p \in Pages : 0 <= refcounts[p] /\ refcounts[p] <= regions_per_page
    /\ pc = "idle" =>
         \A p \in Pages :
           /\ refcounts[p] = Cardinality(CommittedRegionsOn(p))
           /\ (p \in committed) <=> (refcounts[p] > 0)

\* Between calls, a page shared by two committed regions beside an
\* uncommitted page.
C2_Witness ==
  /\ kind = "Smaller"
  /\ pc = "idle"
  /\ \E p \in Pages : refcounts[p] = 2 /\ p \in committed
  /\ \E p \in Pages : refcounts[p] = 0 /\ p \notin committed /\ RegionsOn(p) # {}
  /\ op.name = "uncommit_regions"

\* C3 - Sharing correctness (Smaller): a call of commit_regions issues one
\* storage commit for a page exactly when it raises the page's refcount from
\* zero, and no uncommit; a call of uncommit_regions issues one storage
\* uncommit for a page exactly when it lowers the page's refcount to zero,
\* and no commit.
C3_SharingCorrectness ==
  kind = "Smaller" =>
    /\ Returned("commit_regions") =>
         /\ Calls("uncommit") = <<>>
         /\ \A p \in Pages :
              Len(CallsOn("commit", p)) =
                (IF pre.refcounts[p] = 0 /\ refcounts[p] > 0 THEN 1 ELSE 0)
    /\ Returned("uncommit_regions") =>
         /\ Calls("commit") = <<>>
         /\ \A p \in Pages :
              Len(CallsOn("uncommit", p)) =
                (IF pre.refcounts[p] > 0 /\ refcounts[p] = 0 THEN 1 ELSE 0)

\* With four regions per page and regions 0 and 1 committed (refcount 2),
\* region 0 is uncommitted by a call that uncommits nothing (refcount 1).
C3_Witness ==
  /\ kind = "Smaller"
  /\ regions_per_page = 4
  /\ Returned("uncommit_regions")
  /\ op.start_idx = 0 /\ op.num_regions = 1
  /\ pre.refcounts[0] = 2
  /\ refcounts[0] = 1
  /\ commit_map[1]
  /\ Calls("uncommit") = <<>>
  /\ 0 \in committed

\* C4 - Round trip: when uncommit_regions(s,n) returns right after
\* commit_regions(s,n), every bit of [s,s+n) is clear and (Smaller) every
\* refcount has the value it had before the commit.
C4_RoundTrip ==
  (Returned("uncommit_regions") /\ rt.on) =>
    /\ \A r \in CallRange : ~commit_map[r]
    /\ kind = "Smaller" => refcounts = rt.refcounts

\* A round trip over two regions next to a page that stays committed.
C4_Witness ==
  /\ Returned("uncommit_regions")
  /\ rt.on
  /\ kind = "Smaller"
  /\ op.num_regions = 2
  /\ \E p \in Pages : refcounts[p] = 1 /\ rt.refcounts[p] = 1

\* A call of uncommit_regions is between its entry and its return.
InUncommit == pc # "idle" /\ op.name = "uncommit_regions"

\* Every set bit is backed by committed pages.
SetBitsAreBacked ==
  \A r \in Regions : commit_map[r] => PagesOf(r) \subseteq committed

\* C5 as claimed - in every state, also in the middle of any call, a set
\* bit implies that the pages of its region are committed.
C5_Original == SetBitsAreBacked

\* C5 - Commit ordering: in every state that is not in the middle of an
\* uncommit_regions call (states in the middle of commit_regions included) a
\* set bit implies that the pages of its region are committed; when the
\* listener is about to be notified every bit of the call is set and nothing
\* was notified yet; a notification is the last thing a call does.
C5_CommitOrdering ==
  /\ ~InUncommit => SetBitsAreBacked
  /\ pc \in {"lc_fire", "sc_fire"} =>
       /\ \A r \in CallRange : commit_map[r]
       /\ Calls("on_commit") = <<>>
  /\ Calls("on_commit") # <<>> =>
       /\ pc = "idle"
       /\ log[Len(log)].ev = "on_commit"
       /\ \A r \in CallRange : commit_map[r]

\* In the middle of a commit over two pages: the first region's bit is set
\* and backed, the second page is not committed yet.
C5_Witness ==
  /\ kind = "Smaller"
  /\ pc = "sc_commit"
  /\ op.name = "commit_regions"
  /\ region_idx > op.start_idx
  /\ commit_map[op.start_idx]
  /\ region_idx_to_page_idx(region_idx) \notin committed

\* C6 as claimed - every commit_regions call produces exactly one on_commit
\* notification.
C6_Original ==
  Returned("commit_regions") => Len(Calls("on_commit")) = 1

\* C6 - Listener cardinality: a commit_regions call made with a listener
\* bound produces exactly one on_commit notification, carrying the call's
\* (start, count); a call made with no listener bound produces none;
\* uncommit_regions never produces one; no call is ever at more than one.
C6_ListenerCardinality ==
  /\ Len(Calls("on_commit")) <= 1
  /\ Returned("commit_regions") =>
       IF pre.listener = "NULL"
       THEN Calls("on_commit") = <<>>
       ELSE /\ Len(Calls("on_commit")) = 1
            /\ Calls("on_commit")[1].idx = op.start_idx
            /\ Calls("on_commit")[1].num = op.num_regions
  /\ op.name = "uncommit_regions" => Calls("on_commit") = <<>>

\* One notification for a commit of three regions.
C6_Witness ==
  /\ Returned("commit_regions")
  /\ op.num_regions = 3
  /\ pre.listener = "bound"
  /\ Len(Calls("on_commit")) = 1

\* C7 - zero_filled soundness: when the notification of a commit_regions
\* call carries zero_filled = true, every page backing a region of the call
\* was not committed at entry and was committed by a storage commit of this
\* call that returned zero-filled.
C7_ZeroFilledSound ==
  \A i \in 1 .. Len(log) :
    (log[i].ev = "on_commit" /\ log[i].zf) =>
      \A r \in CallRange : \A p \in PagesOf(r) :
        /\ p \notin pre.committed
        /\ Len(CallsOn("commit", p)) = 1
        /\ CallsOn("commit", p)[1].zf

\* A Smaller notification with zero_filled = true for two regions, each on
\* a page of its own that this call committed.
C7_Witness ==
  /\ kind = "Smaller"
  /\ Returned("commit_regions")
  /\ Calls("on_commit") # <<>>
  /\ Calls("on_commit")[1].zf
  /\ op.num_regions = 2
  /\ Len(Calls("commit")) = 2

\* The conjunction of the results of the storage commits of the call.
RECURSIVE AllZeroFilled(_)
AllZeroFilled(commits) ==
  IF commits = <<>> THEN TRUE
  ELSE Head(commits).zf /\ AllZeroFilled(Tail(commits))

\* C8 as claimed - the flag passed to the listener is the conjunction of the
\* results of the storage commits the call issued (true when it issued none).
C8_Original ==
  (kind = "Smaller" /\ Calls("on_commit") # <<>>) =>
    Calls("on_commit")[1].zf = AllZeroFilled(Calls("commit"))

\* C8 - Smaller zero_filled value: the flag passed to the listener is true
\* exactly when every region of the call issued a storage commit of its own
\* page and every one of these commits returned zero-filled; a region that
\* only increments the refcount of a page already committed makes it false.
C8_ZeroFilledValue ==
  (kind = "Smaller" /\ Calls("on_commit") # <<>>) =>
    Calls("on_commit")[1].zf =
      (/\ Len(Calls("commit")) = op.num_regions
       /\ AllZeroFilled(Calls("commit")))

\* A call that committed no page, and whose flag is false.
C8_Witness ==
  /\ kind = "Smaller"
  /\ Returned("commit_regions")
  /\ Calls("on_commit") # <<>>
  /\ Calls("commit") = <<>>
  /\ ~Calls("on_commit")[1].zf

\* The NUMA requests of the call for region r.
NumaFor(r) == SelectSeq(log, LAMBDA e : e.ev = "numa" /\ e.idx = r)

\* First region of the call that is mapped to page p.
FirstRegionOn(p) ==
  CHOOSE r \in CallRange \cap RegionsOn(p) :
    \A q \in CallRange \cap RegionsOn(p) : r <= q

\* C9 as claimed - for heap memory a commit_regions call requests NUMA
\* placement once for each region of the call, with the region's start
\* address and byte extent (region_granularity / commit_factor bytes).
C9_Original ==
  (Returned("commit_regions") /\ memory_type = "mtJavaHeap") =>
    /\ Len(Calls("numa")) = op.num_regions
    /\ \A r \in CallRange :
         /\ Len(NumaFor(r)) = 1
         /\ NumaFor(r)[1].bytes * commit_factor = region_granularity
         /\ (NumaFor(r)[1].addr - ReservationBase) * commit_factor
              = r * region_granularity

\* C9 - NUMA call count for heap memory: a Larger commit_regions call
\* requests NUMA placement once for each region of the call, with the
\* region's start address, byte extent and index; a Smaller call requests it
\* once for each page it physically commits, with the page's start address,
\* the page size and the index of the first region of the call on that page.
C9_NumaHeap ==
  (Returned("commit_regions") /\ memory_type = "mtJavaHeap") =>
    IF kind = "Larger"
    THEN /\ Len(Calls("numa")) = op.num_regions
         /\ \A r \in CallRange :
              /\ Len(NumaFor(r)) = 1
              /\ NumaFor(r)[1].bytes * commit_factor = region_granularity
              /\ (NumaFor(r)[1].addr - ReservationBase) * commit_factor
                   = r * region_granularity
    ELSE /\ Len(Calls("numa")) = Len(Calls("commit"))
         /\ \A p \in Pages :
              Len(CallsOn("commit", p)) = 1 =>
                /\ Len(NumaFor(FirstRegionOn(p))) = 1
                /\ NumaFor(FirstRegionOn(p))[1].addr = page_start(p)
                /\ NumaFor(FirstRegionOn(p))[1].bytes = page_size

\* A Smaller heap commit of two regions of one page: one request.
C9_Witness ==
  /\ Returned("commit_regions")
  /\ memory_type = "mtJavaHeap"
  /\ kind = "Smaller"
  /\ op.num_regions = 2
  /\ Len(Calls("numa")) = 1

\* C10 - NUMA scoping: with a memory type other than heap no call ever
\* requests NUMA placement, and uncommit_regions never does.
C10_NumaScoping ==
  (memory_type # "mtJavaHeap" \/ op.name = "uncommit_regions") =>
    Calls("numa") = <<>>

\* A non-heap commit that committed pages has returned.
C10_Witness ==
  /\ memory_type # "mtJavaHeap"
  /\ Returned("commit_regions")
  /\ Len(Calls("commit")) >= 2


\* Pages of the storage that back the regions of the call.
CallPages == UNION {PagesOf(r) : r \in CallRange}

\* C12 - Larger commit range: with k = pages_per_region, when
\* commit_regions(start,n) has returned it issued exactly one storage commit,
\* over pages [start*k, (start+n)*k); these are the pages of the regions of
\* the call and of no other region, and no other page changed its state.
C12_LargerCommitRange ==
  (kind = "Larger" /\ Returned("commit_regions")) =>
    /\ Len(Calls("commit")) = 1
    /\ Calls("commit")[1].idx = op.start_idx * pages_per_region
    /\ Calls("commit")[1].num = op.num_regions * pages_per_region
    /\ Range(Calls("commit")[1].idx,
             Calls("commit")[1].idx + Calls("commit")[1].num) = CallPages
    /\ \A r \in Regions \ CallRange : PagesOf(r) \cap CallPages = {}
    /\ committed = pre.committed \cup CallPages

\* With two pages per region, the commit of region 1 alone returned, having
\* committed pages 2 and 3, while region 0 stays uncommitted.
C12_Witness ==
  /\ kind = "Larger"
  /\ pages_per_region = 2
  /\ Returned("commit_regions")
  /\ op.start_idx = 1 /\ op.num_regions = 1
  /\ committed = {2, 3}

\* C13 - Strategy selection: the mapper is a Larger mapper exactly when
\* region_granularity >= page_size * commit_factor and a Smaller mapper
\* exactly when region_granularity < page_size * commit_factor; its
\* pages_per_region (Larger) or regions_per_page (Smaller) is at least 1; and
\* no step changes the strategy or these ratios.
C13_StrategySelection ==
  /\ [](/\ (kind = "Larger") <=> (region_granularity >= page_size * commit_factor)
        /\ (kind = "Smaller") <=> (region_granularity < page_size * commit_factor)
        /\ kind = "Larger" => pages_per_region >= 1
        /\ kind = "Smaller" => regions_per_page >= 1)
  /\ [][/\ kind' = kind
        /\ pages_per_region' = pages_per_region
        /\ regions_per_page' = regions_per_page]_vars

\* A Larger mapper at the boundary region_granularity = page_size *
\* commit_factor, in use.
C13_Witness ==
  /\ kind = "Larger"
  /\ commit_factor = 2
  /\ region_granularity = page_size * commit_factor
  /\ pages_per_region = 1
  /\ Returned("uncommit_regions")

\* Pages the call physically committed.
PagesCommittedByCall == {p \in Pages : CallsOn("commit", p) # <<>>}

\* C17 - Smaller pretouch range: no call issues more than one pretouch; when
\* commit_regions has returned with AlwaysPreTouch on and at least one page
\* physically committed, it issued exactly one pretouch, whose range
\* [first_committed, first_committed + num_committed) is exactly the set of
\* pages the call committed; otherwise it issued none.
C17_PretouchRange ==
  kind = "Smaller" =>
    /\ Len(Calls("pretouch")) <= 1
    /\ Returned("commit_regions") =>
         IF AlwaysPreTouch /\ PagesCommittedByCall # {}
         THEN /\ Len(Calls("pretouch")) = 1
              /\ Range(Calls("pretouch")[1].idx,
                       Calls("pretouch")[1].idx + Calls("pretouch")[1].num)
                   = PagesCommittedByCall
         ELSE Calls("pretouch") = <<>>

\* A commit over two pages of which the first was already committed: the
\* pretouch covers the second page only.
C17_Witness ==
  /\ kind = "Smaller"
  /\ AlwaysPreTouch
  /\ Returned("commit_regions")
  /\ Cardinality(CallPages) = 2
  /\ Len(Calls("pretouch")) = 1
  /\ Calls("pretouch")[1].idx = 1
  /\ Calls("pretouch")[1].num = 1

\* C19 - Larger uncommit: uncommit_regions(start,n) issues exactly one
\* storage uncommit, over pages [start*k, (start+n)*k), before it clears the
\* bits; when it has returned the bits of [start,start+n) are clear and the
\* uncommit is the only call it made to the storage, the NUMA advisor, the
\* pretouch or the listener.
C19_LargerUncommit ==
  (kind = "Larger" /\ op.name = "uncommit_regions") =>
    /\ pc = "lu_uncommit" => (log = <<>> /\ commit_map = pre.commit_map)
    /\ pc = "lu_clear_range" =>
         /\ log = <<UncommitEv(op.start_idx * pages_per_region,
                               op.num_regions * pages_per_region)>>
         /\ commit_map = pre.commit_map
    /\ pc = "idle" =>
         /\ log = <<UncommitEv(op.start_idx * pages_per_region,
                               op.num_regions * pages_per_region)>>
         /\ \A r \in CallRange : ~commit_map[r]
         /\ committed = pre.committed \ CallPages

\* The uncommit of two regions of two pages each has returned.
C19_Witness ==
  /\ kind = "Larger"
  /\ pages_per_region = 2
  /\ Returned("uncommit_regions")
  /\ op.num_regions = 2
  /\ Len(log) = 1

\* Pages of a storage commit or uncommit.
EventPages(e) == Range(e.idx, e.idx + e.num)

\* C20 - Storage call alternation (Smaller): every storage commit is for a
\* page that is not committed and leaves it committed, every storage uncommit
\* is for a page that is committed and leaves it uncommitted, and the set of
\* committed pages changes in no other way; so the commits and uncommits of a
\* page alternate, starting with a commit.
C20_Alternation ==
  [][kind = "Smaller" =>
       /\ \A i \in (Len(log) + 1) .. Len(log') :
            /\ log'[i].ev = "commit" =>
                 /\ EventPages(log'[i]) \cap committed = {}
                 /\ EventPages(log'[i]) \subseteq committed'
            /\ log'[i].ev = "uncommit" =>
                 /\ EventPages(log'[i]) \subseteq committed
                 /\ EventPages(log'[i]) \cap committed' = {}
       /\ committed' # committed =>
            \E i \in (Len(log) + 1) .. Len(log') :
              log'[i].ev \in {"commit", "uncommit"}]_vars

\* A page that was committed by a commit_regions call is uncommitted by the
\* uncommit_regions call that follows.
C20_Witness ==
  /\ kind = "Smaller"
  /\ Returned("uncommit_regions")
  /\ rt.on
  /\ Calls("uncommit") # <<>>
  /\ rt.refcounts[Calls("uncommit")[1].idx] = 0


\* C14 (as stated) - Optional pretouch executor: when commit_regions was
\* called with a NULL pretouch_gang it has issued no pretouch, in either
\* strategy.
C14_Original ==
  (Returned("commit_regions") /\ op.pretouch_gang = "NULL") =>
    Calls("pretouch") = <<>>

\* C14 (amended) - Pretouch is decided by AlwaysPreTouch, not by the
\* pretouch_gang argument: when commit_regions has returned, a Larger mapper
\* has issued one pretouch (over the pages of the call) exactly when
\* AlwaysPreTouch is on, a Smaller mapper exactly when AlwaysPreTouch is on
\* and the call committed a page, whether pretouch_gang is NULL or not.
C14_PretouchByFlag ==
  Returned("commit_regions") =>
    /\ Len(Calls("pretouch")) <= 1
    /\ (Calls("pretouch") # <<>>) <=>
         /\ AlwaysPreTouch
         /\ kind = "Smaller" => PagesCommittedByCall # {}
    /\ (kind = "Larger" /\ AlwaysPreTouch) =>
         Calls("pretouch") = <<PretouchEv(op.start_idx * pages_per_region,
                                          op.num_regions * pages_per_region)>>

\* A Smaller commit_regions call with a NULL pretouch_gang that issued a
\* pretouch.
C14_Witness ==
  /\ Returned("commit_regions")
  /\ op.pretouch_gang = "NULL"
  /\ AlwaysPreTouch
  /\ Len(Calls("pretouch")) = 1
  /\ kind = "Smaller"


\* ------------------------------------------- construction with any sizes
\* Page sizes and region granularities a caller may pass to create_mapper,
\* powers of two or not.
AnyPageSizes == 1 .. 4
AnyGranularities == 1 .. 8

\* Every construction, successful or not.
InitCtor ==
  /\ Construct(AnyPageSizes, AnyGranularities, CommitFactors)
  /\ Http1HeaderParser(384 * K)

SpecCtor == InitCtor /\ [][Next]_vars

\* C15 - Construction validation: a construction with a page_size or a
\* region_granularity that is not a power of two ends in the fatal state, from
\* which no operation of the mapper runs; a construction with both powers of
\* two succeeds with an all-clear bitmap of
\* rs_size * commit_factor / region_granularity bits, and the bitmap keeps
\* that size.
C15_ConstructionValidation ==
  /\ (is_power_of_2(page_size) /\ is_power_of_2(region_granularity)) =>
       /\ pc = "idle"
       /\ \A r \in Regions : ~commit_map[r]
  /\ [](/\ pc = "fatal" <=>
             ~(is_power_of_2(page_size) /\ is_power_of_2(region_granularity))
        /\ Regions = 0 .. ((rs_size * commit_factor) \div region_granularity - 1))
  /\ [][pc # "fatal"]_vars

\* A construction with a power-of-two page size and a region granularity of 6
\* has stopped the VM.
C15_Witness ==
  /\ pc = "fatal"
  /\ is_power_of_2(page_size)
  /\ region_granularity = 6


\* ------------------------------------- calls that break the precondition
\* The mapper's bookkeeping is as precondition-respecting calls leave it:
\* bits, refcounts and committed pages agree.
Undisturbed ==
  /\ \A r \in Regions :
       IF commit_map[r] THEN PagesOf(r) \subseteq committed
       ELSE kind = "Larger" => PagesOf(r) \cap committed = {}
  /\ kind = "Smaller" =>
       \A p \in Pages :
         /\ refcounts[p] = Cardinality(CommittedRegionsOn(p))
         /\ (p \in committed) <=> (refcounts[p] > 0)

\* commit_regions on a range with a region whose bit is set. Nothing is
\* tested at entry (lines 177, 233); the calls explored are those made while
\* the bookkeeping is still undisturbed.
commit_regions_unchecked ==
  \E start_idx \in Regions, num_regions \in 1 .. MaxRegions :
    /\ ValidRange(start_idx, num_regions)
    /\ ~CanCommit(start_idx, num_regions)
    /\ Undisturbed
    /\ Enter("commit_regions", start_idx, num_regions, "NULL",
             IF kind = "Larger" THEN "lc_commit" ELSE "sc_commit")
    /\ UNCHANGED other

\* uncommit_regions on a range with a region whose bit is clear (lines 195,
\* 273).
uncommit_regions_unchecked ==
  \E start_idx \in Regions, num_regions \in 1 .. MaxRegions :
    /\ ValidRange(start_idx, num_regions)
    /\ ~CanUncommit(start_idx, num_regions)
    /\ Undisturbed
    /\ Enter("uncommit_regions", start_idx, num_regions, "NULL",
             IF kind = "Larger" THEN "lu_uncommit" ELSE "su_uncommit")
    /\ UNCHANGED other

\* Line 243, in a build with asserts: the region is already committed and the
\* VM stops. A build without asserts goes on with sc_commit.
sc_assert_fails ==
  /\ pc = "sc_commit"
  /\ commit_map[region_idx]
  /\ pc' = "fatal"
  /\ UNCHANGED <<config, parser, other, mapper, listener, op, locals, log, pre, rt>>

\* Lines 275 and 278, in a build with asserts: the region is not committed
\* or the refcount of its page is 0 (an unsigned count: any other value is
\* > 0) and the VM stops. A build without asserts goes on with su_uncommit,
\* and line 282 takes a count of 0 to UINT_MAX, held here as -1.
su_assert_fails ==
  /\ pc = "su_uncommit"
  /\ \/ ~commit_map[region_idx]
     \/ refcounts[region_idx_to_page_idx(region_idx)] = 0
  /\ pc' = "fatal"
  /\ UNCHANGED <<config, parser, other, mapper, listener, op, locals, log, pre, rt>>

\* The Larger mapper hands the pages to the storage without a test of its
\* own (lines 178-180, 196); a storage that checks the state of the pages
\* stops the VM there, one that does not goes on with lc_commit / lu_uncommit.
storage_rejects ==
  /\ kind = "Larger"
  /\ LET pages == Range(op.start_idx * pages_per_region,
                        (op.start_idx + op.num_regions) * pages_per_region)
     IN \/ pc = "lc_commit" /\ pages \cap committed # {}
        \/ pc = "lu_uncommit" /\ ~(pages \subseteq committed)
  /\ pc' = "fatal"
  /\ UNCHANGED <<config, parser, other, mapper, listener, op, locals, log, pre, rt>>

NextUnchecked ==
  \/ Next
  \/ commit_regions_unchecked
  \/ uncommit_regions_unchecked
  \/ sc_assert_fails
  \/ su_assert_fails
  \/ storage_rejects

\* Constructions explored with calls that break the precondition.
InitUnchecked == Init /\ memory_type = "mtGC" /\ ~AlwaysPreTouch

SpecUnchecked == InitUnchecked /\ [][NextUnchecked]_vars

\* The call in progress or just returned broke its precondition.
BrokePrecondition ==
  \/ op.name = "commit_regions" /\ \E r \in CallRange : pre.commit_map[r]
  \/ op.name = "uncommit_regions" /\ \E r \in CallRange : ~pre.commit_map[r]

\* C11 - Fatal precondition: in both strategies a commit_regions call on a
\* range with a region whose bit is set, and an uncommit_regions call on a
\* range with a region whose bit is clear, never returns: it does not get
\* past its first step towards setting or clearing bits.
C11_FatalPrecondition ==
  BrokePrecondition =>
    pc \in {"lc_commit", "lu_uncommit", "sc_commit", "su_uncommit", "fatal"}


\* ------------------------------------------------- two concurrent callers
\* The mapper takes no lock: lines 177-198 and 233-285 run on the caller's
\* thread. Two threads are modelled by the frame that runs (pc, op, locals,
\* log) and the frame that waits (other); each step of a call is one access
\* to the refcount table, the bitmap or the storage and is taken as atomic.
CallNames == {"commit_regions", "uncommit_regions"}

\* First step of a call.
FirstPc(name) ==
  IF kind = "Larger"
  THEN IF name = "commit_regions" THEN "lc_commit" ELSE "lu_uncommit"
  ELSE IF name = "commit_regions" THEN "sc_commit" ELSE "su_uncommit"

\* A call the caller may make in the current state.
CanCall(name, start_idx, num_regions) ==
  /\ ValidRange(start_idx, num_regions)
  /\ IF name = "commit_regions"
     THEN CanCommit(start_idx, num_regions)
     ELSE CanUncommit(start_idx, num_regions)

\* Regions of a call.
RegionsOfCall(call) == Range(call.start_idx, call.start_idx + call.num_regions)

\* Pages that back the regions of a call.
PagesOfCall(call) == UNION {PagesOf(r) : r \in RegionsOfCall(call)}

\* A frame is in the middle of its call: it has taken a step and has not
\* returned.
MidCall(f) ==
  /\ f.pc \notin {"none", "idle"}
  /\ f.pc # FirstPc(f.op.name) \/ f.region_idx # f.op.start_idx

\* Two threads enter a call each, on non-overlapping region ranges, with no
\* serialization between them. pre keeps the mapper's state at this point.
concurrent_calls ==
  \E nameA \in CallNames, nameB \in CallNames,
     startA \in Regions, startB \in Regions,
     numA \in 1 .. MaxRegions, numB \in 1 .. MaxRegions :
    /\ other.pc = "none"
    /\ CanCall(nameA, startA, numA)
    /\ CanCall(nameB, startB, numB)
    /\ Range(startA, startA + numA) \cap Range(startB, startB + numB) = {}
    /\ Enter(nameA, startA, numA, "NULL", FirstPc(nameA))
    /\ other' = Frame(FirstPc(nameB),
                      [name |-> nameB, start_idx |-> startB,
                       num_regions |-> numB, pretouch_gang |-> "NULL"],
                      startB)

\* switch with old_refcount shared by the two threads instead of local.
switch_shared_locals ==
  /\ other.pc \notin {"none", "idle"}
  /\ pc' = other.pc
  /\ op' = other.op
  /\ region_idx' = other.region_idx
  /\ old_refcount' = old_refcount
  /\ zero_filled' = other.zero_filled
  /\ all_zero_filled' = other.all_zero_filled
  /\ first_committed' = other.first_committed
  /\ num_committed' = other.num_committed
  /\ log' = other.log
  /\ other' = [pc |-> pc, op |-> op, region_idx |-> region_idx,
               old_refcount |-> old_refcount, zero_filled |-> zero_filled,
               all_zero_filled |-> all_zero_filled,
               first_committed |-> first_committed,
               num_committed |-> num_committed, log |-> log,
               interleaved |-> \/ other.interleaved
                               \/ MidCall(other) /\ pc # "idle"
                                  /\ (pc # FirstPc(op.name)
                                      \/ region_idx # op.start_idx)]
  /\ UNCHANGED <<config, parser, mapper, listener, pre, rt>>

\* The scheduler runs the other thread, which has not returned yet.
\* interleaved records that both threads were in the middle of their calls.
switch ==
  /\ other.pc \notin {"none", "idle"}
  /\ pc' = other.pc
  /\ op' = other.op
  /\ region_idx' = other.region_idx
  /\ old_refcount' = other.old_refcount
  /\ zero_filled' = other.zero_filled
  /\ all_zero_filled' = other.all_zero_filled
  /\ first_committed' = other.first_committed
  /\ num_committed' = other.num_committed
  /\ log' = other.log
  /\ other' = [pc |-> pc, op |-> op, region_idx |-> region_idx,
               old_refcount |-> old_refcount, zero_filled |-> zero_filled,
               all_zero_filled |-> all_zero_filled,
               first_committed |-> first_committed,
               num_committed |-> num_committed, log |-> log,
               interleaved |-> \/ other.interleaved
                               \/ MidCall(other) /\ pc # "idle"
                                  /\ (pc # FirstPc(op.name)
                                      \/ region_idx # op.start_idx)]
  /\ UNCHANGED <<config, parser, mapper, listener, pre, rt>>

\* Calls of a single thread, before the two concurrent ones.
serial_calls ==
  /\ other.pc = "none"
  /\ \E start_idx \in Regions, num_regions \in 1 .. MaxRegions :
       \/ larger_commit_regions(start_idx, num_regions, "NULL")
       \/ smaller_commit_regions(start_idx, num_regions, "NULL")
       \/ larger_uncommit_regions(start_idx, num_regions)
       \/ smaller_uncommit_regions(start_idx, num_regions)

NextConc ==
  \/ serial_calls
  \/ concurrent_calls
  \/ switch
  \/ lc_commit \/ lc_numa \/ lc_pretouch \/ lc_set_range \/ lc_fire
  \/ lu_uncommit \/ lu_clear_range
  \/ sc_commit \/ sc_numa \/ sc_set_bit \/ sc_pretouch \/ sc_fire
  \/ su_uncommit \/ su_clear_bit

\* Constructions explored with two callers.
InitConc == Init /\ memory_type = "mtGC" /\ ~AlwaysPreTouch

SpecConc == InitConc /\ [][NextConc]_vars

\* Bitmap, refcount table and committed pages.
MapperState ==
  [commit_map |-> commit_map, refcounts |-> refcounts, committed |-> committed]

\* Mapper state after a call made alone from state m: commit_regions sets
\* the bits, counts each region on its page and commits the pages whose count
\* was 0; uncommit_regions clears the bits, discounts each region and
\* uncommits the pages whose count reaches 0.
After(m, call) ==
  LET commit == call.name = "commit_regions"
      regions == RegionsOfCall(call)
      pages == PagesOfCall(call)
      bits == [r \in DOMAIN m.commit_map |->
                 IF r \in regions THEN commit ELSE m.commit_map[r]]
      on_page(p) == Cardinality({r \in regions : region_idx_to_page_idx(r) = p})
      counts == [p \in DOMAIN m.refcounts |->
                   IF commit THEN m.refcounts[p] + on_page(p)
                   ELSE m.refcounts[p] - on_page(p)]
  IN IF kind = "Larger"
     THEN [commit_map |-> bits, refcounts |-> m.refcounts,
           committed |-> IF commit THEN m.committed \cup pages
                         ELSE m.committed \ pages]
     ELSE [commit_map |-> bits, refcounts |-> counts,
           committed |->
             IF commit
             THEN m.committed \cup {p \in pages : m.refcounts[p] = 0}
             ELSE m.committed \ {p \in pages : counts[p] = 0}]

\* Both concurrent calls have returned.
BothReturned == pc = "idle" /\ other.pc = "idle"

\* The final state is the one a serial order of the two calls leaves.
Serializable ==
  MapperState \in {After(After(pre, op), other.op),
                   After(After(pre, other.op), op)}

\* C18 (as stated) - Concurrent calls on disjoint region ranges: when two
\* calls that ran concurrently on non-overlapping region ranges have both
\* returned, bitmap, refcount table and committed pages are those of a serial
\* order of the two calls.
C18_Original == BothReturned => Serializable

\* C18 (amended) - When two calls that ran concurrently on non-overlapping
\* region ranges whose regions share no page have both returned, bitmap,
\* refcount table and committed pages are those of a serial order of the two
\* calls (each access to bitmap, refcount table and storage taken as atomic).
\* A call made alone leaves the state After gives.
C18_DisjointPages ==
  /\ (BothReturned /\ PagesOfCall(op) \cap PagesOfCall(other.op) = {}) =>
       Serializable
  /\ (other.pc = "none" /\ pc = "idle" /\ op.name \in CallNames) =>
       MapperState = After(pre, op)

\* Two Smaller calls on different pages, a commit and an uncommit, have
\* returned after running interleaved.
C18_Witness ==
  /\ BothReturned
  /\ kind = "Smaller"
  /\ other.interleaved
  /\ PagesOfCall(op) \cap PagesOfCall(other.op) = {}
  /\ op.name # other.op.name


\* ------------------------------------------- a physical commit that fails
\* _storage.commit (lines 180, 255) cannot back the pages: the storage stops
\* the VM with an out-of-memory error and does not return to the mapper,
\* which has no code for this case.
storage_commit_fails ==
  /\ \/ pc = "lc_commit"
     \/ /\ pc = "sc_commit"
        /\ refcounts[region_idx_to_page_idx(region_idx)] = 0
  /\ pc' = "fatal"
  /\ UNCHANGED <<config, parser, other, mapper, listener, op, locals, log, pre, rt>>

NextOom ==
  \/ Next
  \/ storage_commit_fails

SpecOom == Init /\ [][NextOom]_vars

\* Regions of the call whose loop iteration was completed.
RegionsDone == Range(op.start_idx, region_idx)

\* C21 - No retry, no rollback: when a physical commit of a commit_regions
\* call has failed, nothing runs any more (no retry), the call has issued no
\* uncommit and no listener notification, the regions it had completed keep
\* their bits, their refcounts and their committed pages, and nothing else
\* changed; a commit_regions call that returns has set all its bits.
C21_NoRetryNoRollback ==
  /\ [](pc = "fatal" =>
         /\ op.name = "commit_regions"
         /\ Calls("uncommit") = <<>>
         /\ Calls("on_commit") = <<>>
         /\ commit_map = [r \in Regions |-> pre.commit_map[r] \/ r \in RegionsDone]
         /\ committed = pre.committed \cup UNION {PagesOf(r) : r \in RegionsDone}
         /\ kind = "Smaller" =>
              \A p \in Pages :
                refcounts[p] = pre.refcounts[p]
                  + Cardinality({r \in RegionsDone : region_idx_to_page_idx(r) = p}))
  /\ [](Returned("commit_regions") => \A r \in CallRange : commit_map[r])
  /\ [][pc # "fatal"]_vars

\* The commit of the second page of a call failed after the first page was
\* committed and its region's bit set, with a listener bound.
C21_Witness ==
  /\ pc = "fatal"
  /\ kind = "Smaller"
  /\ listener = "bound"
  /\ region_idx > op.start_idx
  /\ Calls("commit") # <<>>
  /\ committed # pre.committed


\* --------------------------------------------- calls on ranges out of range
\* Neither mapper compares start_idx or num_regions with the size of the
\* bitmap (lines 177-198, 233-285). A statement that indexes the bitmap or
\* the refcount table outside its bounds is undefined behaviour: the VM stops
\* on a check of the container (pc = "fatal") or goes on with memory that is
\* not the mapper's (pc = "undefined", not followed further).

\* The statement about to run stays inside the bitmap and the refcount table.
StepInRange ==
  IF pc \in {"sc_commit", "sc_numa", "su_uncommit"}
  THEN region_idx_to_page_idx(region_idx) \in Pages
  ELSE IF pc \in {"sc_set_bit", "su_clear_bit"}
  THEN region_idx \in Regions
  ELSE IF pc \in {"lc_commit", "lc_numa", "lc_pretouch", "lc_set_range",
                  "lc_fire", "lu_uncommit", "lu_clear_range"}
  THEN ValidRange(op.start_idx, op.num_regions)
  ELSE TRUE

\* commit_regions on a range that is not inside the bitmap; the regions of
\* the range that exist are uncommitted.
commit_regions_out_of_range ==
  \E start_idx \in 0 .. MaxRegions, num_regions \in 1 .. MaxRegions :
    /\ ~ValidRange(start_idx, num_regions)
    /\ \A r \in Range(start_idx, start_idx + num_regions) \cap Regions :
         ~commit_map[r]
    /\ Enter("commit_regions", start_idx, num_regions, "NULL",
             FirstPc("commit_regions"))
    /\ UNCHANGED other

\* uncommit_regions on a range that is not inside the bitmap; the regions of
\* the range that exist are committed.
uncommit_regions_out_of_range ==
  \E start_idx \in 0 .. MaxRegions, num_regions \in 1 .. MaxRegions :
    /\ ~ValidRange(start_idx, num_regions)
    /\ \A r \in Range(start_idx, start_idx + num_regions) \cap Regions :
         commit_map[r]
    /\ Enter("uncommit_regions", start_idx, num_regions, "NULL",
             FirstPc("uncommit_regions"))
    /\ UNCHANGED other

\* An access outside the bounds. The asserts of lines 243 and 275 read the
\* bit of a region that does not exist and may stop the VM there; line 282
\* writes the refcount before line 283 clears a bit that does not exist.
out_of_range_access ==
  /\ pc \notin {"idle", "fatal", "undefined"}
  /\ \/ ~StepInRange /\ pc' \in {"fatal", "undefined"}
     \/ /\ pc \in {"sc_commit", "su_uncommit"}
        /\ region_idx \notin Regions
        /\ pc' = "fatal"
  /\ refcounts' =
       IF pc = "su_clear_bit"
       THEN [refcounts EXCEPT
               ![region_idx_to_page_idx(region_idx)] = old_refcount - 1]
       ELSE refcounts
  /\ UNCHANGED <<config, parser, other, commit_map, committed, listener, op, locals,
                 log, pre, rt>>

NextRange ==
  \/ StepInRange /\ set_listener
  \/ StepInRange /\ commit_regions
  \/ StepInRange /\ uncommit_regions
  \/ StepInRange /\ lc_commit
  \/ StepInRange /\ lc_numa
  \/ StepInRange /\ lc_pretouch
  \/ StepInRange /\ lc_set_range
  \/ StepInRange /\ lc_fire
  \/ StepInRange /\ lu_uncommit
  \/ StepInRange /\ lu_clear_range
  \/ StepInRange /\ sc_commit
  \/ StepInRange /\ sc_numa
  \/ StepInRange /\ sc_set_bit
  \/ StepInRange /\ sc_pretouch
  \/ StepInRange /\ sc_fire
  \/ StepInRange /\ su_uncommit
  \/ StepInRange /\ su_clear_bit
  \/ commit_regions_out_of_range
  \/ uncommit_regions_out_of_range
  \/ out_of_range_access

\* Constructions explored with calls out of range.
InitRange == Init /\ memory_type = "mtGC" /\ ~AlwaysPreTouch

SpecRange == InitRange /\ [][NextRange]_vars

\* The call in progress is on a range that is not inside the bitmap.
OutOfRangeCall ==
  /\ op.name \in CallNames
  /\ ~ValidRange(op.start_idx, op.num_regions)

\* C22 - Out-of-range indices: in both strategies a commit_regions or
\* uncommit_regions call on a range not contained in the bitmap does not
\* return, and while it runs and after it has stopped every bit and every
\* refcount of the regions and pages that exist is as it was at entry.
C22_OutOfRange ==
  OutOfRangeCall =>
    /\ pc # "idle"
    /\ commit_map = pre.commit_map
    /\ refcounts = pre.refcounts


\* Positions of the calls of one kind in the log.
Positions(ev) == {i \in 1 .. Len(log) : log[i].ev = ev}

\* C23 - Pretouch isolation: in the calls of a commit_regions call every
\* physical commit precedes the pretouch and the pretouch precedes the
\* listener notification; the step that runs the pretouch changes no bitmap
\* bit, no refcount and no committed page; and after the pretouch the call
\* issues no further physical commit.
C23_PretouchIsolation ==
  /\ [](\A t \in Positions("pretouch") :
          /\ \A c \in Positions("commit") : c < t
          /\ \A n \in Positions("on_commit") : t < n)
  /\ [][Len(Calls("pretouch"))' > Len(Calls("pretouch")) =>
          /\ commit_map' = commit_map
          /\ refcounts' = refcounts
          /\ committed' = committed
          /\ pc' \in {"lc_set_range", "sc_fire"}]_vars

\* A Smaller commit_regions call that committed two pages, pretouched them
\* and then notified the listener.
C23_Witness ==
  /\ Returned("commit_regions")
  /\ kind = "Smaller"
  /\ Len(Calls("commit")) = 2
  /\ Len(Calls("pretouch")) = 1
  /\ Len(Calls("on_commit")) = 1


\* Pages that back no region of the call.
PagesOffCall == Pages \ CallPages

\* C24 - Frame of a range operation: while an uncommit_regions call runs and
\* when it has returned every bit outside its range is as at entry; in the
\* Smaller strategy, during and after a commit_regions or uncommit_regions
\* call, every page that backs no region of the range has the refcount and
\* the commit state it had at entry, and the call issued no storage call for
\* such a page.
C24_Frame ==
  op.name \in CallNames =>
    /\ op.name = "uncommit_regions" =>
         \A r \in Regions \ CallRange : commit_map[r] = pre.commit_map[r]
    /\ kind = "Smaller" =>
         \A p \in PagesOffCall :
           /\ refcounts[p] = pre.refcounts[p]
           /\ (p \in committed) <=> (p \in pre.committed)
           /\ CallsOn("commit", p) = <<>>
           /\ CallsOn("uncommit", p) = <<>>

\* A Smaller uncommit_regions call has returned that left alone a committed
\* region outside its range and the committed page that backs it.
C24_Witness ==
  /\ kind = "Smaller"
  /\ Returned("uncommit_regions")
  /\ \E p \in PagesOffCall : p \in committed /\ refcounts[p] > 0
  /\ \E r \in Regions \ CallRange : commit_map[r]
  /\ Calls("uncommit") # <<>>


\* ------------------------------------ commit factors not a power of two
\* The constructors test page_size and region_granularity for powers of two
\* (lines 151-152) but not commit_factor; a factor of 3 passes the guarantee
\* of line 229 with any region_granularity < 3 * page_size.
AnyCommitFactors == 1 .. 3

\* Constructions explored with any commit factor.
InitFactor ==
  /\ Construct(PageSizes, Granularities, AnyCommitFactors)
  /\ Http1HeaderParser(384 * K)
  /\ pc = "idle"
  /\ memory_type = "mtGC"
  /\ ~AlwaysPreTouch

SpecFactor == InitFactor /\ [][NextRange]_vars

\* C25 - Refcount table bounds (Smaller): the refcount table has
\* align_up(rs_size, page_size) / page_size entries, the page index
\* r / regions_per_page of every region r of the bitmap is an index of the
\* table, and so is every index at which a call on a range inside the bitmap
\* reads or writes the table.
C25_RefcountBounds ==
  kind = "Smaller" =>
    /\ Pages = 0 .. (align_up(rs_size, page_size) \div page_size - 1)
    /\ \A r \in Regions : region_idx_to_page_idx(r) \in Pages
    /\ (/\ ValidRange(op.start_idx, op.num_regions)
        /\ pc \in {"sc_commit", "sc_numa", "su_uncommit", "su_clear_bit"}) =>
         region_idx_to_page_idx(region_idx) \in Pages


\* ============================================== Http1HeaderParser.parse
\* The parser is driven one step at a time: a step is the loop test of
\* parse with the case it selects, or one iteration of the inner loop of
\* readResumeStatusLine / readResumeHeader. The bytes of a buffer are
\* decided when they are read, so a buffer is the number of bytes it still
\* holds.

\* ----------------------------------------------------- java.lang.String
\* substring(begin, end): the characters at 0-based positions begin..end-1.
substring(s, begin, end) == SubSeq(s, begin + 1, end)

\* startsWith(prefix)
startsWith(s, prefix) ==
  Len(s) >= Len(prefix) /\ SubSeq(s, 1, Len(prefix)) = prefix

\* indexOf(ch): 0-based position of the first ch, -1 when there is none.
indexOf(s, ch) ==
  IF \E i \in 1 .. Len(s) : s[i] = ch
  THEN (CHOOSE i \in 1 .. Len(s) :
          s[i] = ch /\ \A j \in 1 .. (i - 1) : s[j] # ch) - 1
  ELSE -1

\* trim(): drops the leading and trailing characters <= ' '.
Blank == {CR, LF, HT, SP}

RECURSIVE trim(_)
trim(s) ==
  IF s = <<>> THEN s
  ELSE IF Head(s) \in Blank THEN trim(Tail(s))
  ELSE IF s[Len(s)] \in Blank THEN trim(SubSeq(s, 1, Len(s) - 1))
  ELSE s

\* toLowerCase(Locale.US), on the letters the inputs are made of.
toLowerCase(s) ==
  [i \in 1 .. Len(s) |->
     CASE s[i] = "A" -> "a"
       [] s[i] = "H" -> "h"
       [] s[i] = "T" -> "t"
       [] s[i] = "P" -> "p"
       [] s[i] = "O" -> "o"
       [] s[i] = "K" -> "k"
       [] OTHER -> s[i]]

\* Character.digit(ch, 10): the value of a decimal digit, -1 otherwise.
Digits == <<"0", "1", "2", "3", "4", "5", "6", "7", "8", "9">>

digit(ch) ==
  IF \E i \in 1 .. 10 : Digits[i] = ch
  THEN (CHOOSE i \in 1 .. 10 : Digits[i] = ch) - 1
  ELSE -1

\* Integer.parseInt(s) accepts an optional sign followed by at least one
\* decimal digit and nothing else; everything else is a
\* NumberFormatException.
NumberFormat(s) ==
  LET signed == s # <<>> /\ Head(s) \in {"+", "-"}
      digits == IF signed THEN Tail(s) ELSE s
  IN digits # <<>> /\ \A i \in 1 .. Len(digits) : digit(digits[i]) >= 0

RECURSIVE decimal(_)
decimal(digits) ==
  IF digits = <<>> THEN 0
  ELSE 10 * decimal(SubSeq(digits, 1, Len(digits) - 1))
       + digit(digits[Len(digits)])

parseInt(s) ==
  IF Head(s) = "-" THEN 0 - decimal(Tail(s))
  ELSE IF Head(s) = "+" THEN decimal(Tail(s))
  ELSE decimal(s)

\* ------------------------------------------------- the parser as a value
\* The fields of the parser and the frame of the parse call in progress.
Machine ==
  [state |-> state, sb |-> sb, statusLine |-> statusLine,
   responseCode |-> responseCode, headers |-> headers,
   privateMap |-> privateMap, size |-> size,
   ppc |-> ppc, remaining |-> remaining, count |-> count, max |-> max,
   result |-> result]

\* throw: the call ends with the exception; the fields keep what the
\* statements before the throw gave them, the buffer what was not read.
throw(m, exception) == [m EXCEPT !.ppc = "idle", !.result = exception]

\* The call has ended.
Ended(m) == m.ppc = "idle"

\* input.get(): one byte less in the buffer.
get(m) == [m EXCEPT !.remaining = @ - 1]

\* canContinueParsing that also stops at the end of the status line.
canContinueParsing_status_end(m) ==
  CASE m.state \in {"FINISHED", "STATUS_LINE_END"} -> FALSE
    [] m.state \in {"STATUS_LINE_FOUND_LF", "STATUS_LINE_END_LF",
                    "HEADER_FOUND_LF"} -> TRUE
    [] OTHER -> m.remaining > 0

\* canContinueParsing
canContinueParsing(m) ==
  CASE m.state = "FINISHED" -> FALSE
    [] m.state \in {"STATUS_LINE_FOUND_LF", "STATUS_LINE_END_LF",
                    "HEADER_FOUND_LF"} -> TRUE
    [] OTHER -> m.remaining > 0

\* checkMaxHeaderSize(sz)
checkMaxHeaderSize(m, sz) ==
  LET s == m.size + sz + 32
  IN IF MAX_HTTP_HEADER_SIZE > 0 /\ s > MAX_HTTP_HEADER_SIZE
     THEN throw(m, "ProtocolException")
     ELSE m

\* newSize(size, name, value): the new size; the test that makes it throw
\* is TooBig.
newSize(sz, name, value) == sz + name + value + 32

TooBig(new_size) == MAX_HTTP_HEADER_SIZE > 0 /\ new_size > MAX_HTTP_HEADER_SIZE

\* HttpHeaders.of(privateMap, ACCEPT_ALL): the names of the map are lower
\* case, trimmed and not empty, so every entry is kept as it is.
HttpHeaders_of(map) == map

\* privateMap.computeIfAbsent(name, k -> new ArrayList<>()).add(value)
computeIfAbsent_add(map, name, value) ==
  [n \in DOMAIN map \cup {name} |->
     IF n \in DOMAIN map THEN (IF n = name THEN Append(map[n], value) ELSE map[n])
     ELSE <<value>>]

\* max computed without the characters sb already holds.
enter_loop_ignores_sb(m, loop) ==
  [m EXCEPT !.max = MAX_HTTP_HEADER_SIZE - m.size - 32,
            !.count = 0,
            !.ppc = loop]

\* The first statements of readResumeStatusLine and of readResumeHeader:
\* max and count.
enter_loop(m, loop) ==
  [m EXCEPT !.max = MAX_HTTP_HEADER_SIZE - m.size - 32 - Len(m.sb),
            !.count = 0,
            !.ppc = loop]

\* readResumeStatusLine: one test of the while loop, with the byte c the
\* buffer gives if it has one. Leaving the loop for want of input changes
\* no state: the last character read is neither CR nor LF.
readResumeStatusLine(m, c) ==
  IF m.remaining = 0 THEN [m EXCEPT !.ppc = "parse"]
  ELSE IF c = CR
  THEN [get(m) EXCEPT !.state = "STATUS_LINE_FOUND_CR", !.ppc = "parse"]
  ELSE IF c = LF
  THEN [get(m) EXCEPT !.state = "STATUS_LINE_FOUND_LF", !.ppc = "parse"]
  ELSE LET a == [get(m) EXCEPT !.sb = Append(@, c), !.count = @ + 1]
       IN IF a.count > a.max THEN checkMaxHeaderSize(a, Len(a.sb)) ELSE a

\* readStatusLineFeed
HTTP_1 == <<"H", "T", "T", "P", "/", "1", ".">>

readStatusLineFeed(m, b) ==
  LET from_lf == m.state = "STATUS_LINE_FOUND_LF"
      g == IF from_lf THEN m ELSE get(m)
      c == IF from_lf THEN LF ELSE b
      line == g.sb
      s == [g EXCEPT !.statusLine = Some(line),
                     !.size = @ + 32 + Len(line),
                     !.sb = <<>>]
  IN IF c # LF THEN throw(g, "ProtocolException")
     ELSE IF ~startsWith(line, HTTP_1) THEN throw(s, "ProtocolException")
     ELSE IF Len(line) < 12 THEN throw(s, "ProtocolException")
     ELSE IF ~NumberFormat(substring(line, 9, 12))
     THEN throw(s, "NumberFormatException")
     ELSE [s EXCEPT !.responseCode = parseInt(substring(line, 9, 12)),
                    !.state = "STATUS_LINE_END"]

\* headers = HttpHeaders.of(privateMap, ACCEPT_ALL); privateMap = null;
\* state = State.FINISHED
finished(m) ==
  [m EXCEPT !.headers = Some(HttpHeaders_of(Get(m.privateMap))),
            !.privateMap = Null,
            !.state = "FINISHED"]

\* maybeStartHeaders
maybeStartHeaders(m, c) ==
  IF c = CR THEN [get(m) EXCEPT !.state = "STATUS_LINE_END_CR"]
  ELSE IF c = LF THEN [get(m) EXCEPT !.state = "STATUS_LINE_END_LF"]
  ELSE LET a == checkMaxHeaderSize([get(m) EXCEPT !.sb = Append(@, c)],
                                   Len(m.sb) + 1)
       IN IF Ended(a) THEN a ELSE [a EXCEPT !.state = "HEADER"]

\* maybeEndHeaders
maybeEndHeaders(m, b) ==
  LET from_lf == m.state = "STATUS_LINE_END_LF"
      g == IF from_lf THEN m ELSE get(m)
      c == IF from_lf THEN LF ELSE b
  IN IF c = LF THEN finished(g) ELSE throw(g, "ProtocolException")

\* readResumeHeader: one test of the while loop, with the byte c the
\* buffer gives if it has one.
readResumeHeader(m, c) ==
  IF m.remaining = 0 THEN [m EXCEPT !.ppc = "parse"]
  ELSE IF c = CR
  THEN [get(m) EXCEPT !.state = "HEADER_FOUND_CR", !.ppc = "parse"]
  ELSE IF c = LF
  THEN [get(m) EXCEPT !.state = "HEADER_FOUND_LF", !.ppc = "parse"]
  ELSE LET a == [get(m) EXCEPT !.sb = Append(@, IF c = HT THEN SP ELSE c),
                               !.count = @ + 1]
       IN IF a.count > a.max THEN checkMaxHeaderSize(a, Len(a.sb)) ELSE a

\* addHeaderFromString
addHeaderFromString(m, headerString) ==
  LET idx == indexOf(headerString, ":")
      name == trim(substring(headerString, 0, idx))
      value == trim(substring(headerString, idx + 1, Len(headerString)))
      new_size == newSize(m.size, Len(name), Len(value))
  IN IF idx = -1 THEN m
     ELSE IF name = <<>> THEN m
     ELSE IF TooBig(new_size) THEN throw(m, "ProtocolException")
     ELSE [m EXCEPT !.size = new_size,
                    !.privateMap =
                       Some(computeIfAbsent_add(Get(@), toLowerCase(name),
                                                value))]

\* The flush without sb = new StringBuilder().
flush_entry_keeps(m) ==
  m

\* sb = new StringBuilder(), before addHeaderFromString is called.
flush_entry(m) ==
  [m EXCEPT !.sb = <<>>]

\* if (sb.length() > 0) { headerString = sb.toString();
\* sb = new StringBuilder(); addHeaderFromString(headerString); }
flush(m) ==
  IF Len(m.sb) > 0
  THEN addHeaderFromString(flush_entry(m), m.sb)
  ELSE m

\* The assert statements that the case of the switch for m.state executes
\* hold, b being the byte the case reads: sb is empty at the entry of
\* maybeStartHeaders and maybeEndHeaders, the buffer has a byte at the
\* entry of readResumeHeader, sb is not empty when resumeOrSecondCR reads a
\* continuation line, sb is empty at the entry of addHeaderFromString. The
\* asserts on state hold by the labels of the switch.
asserts(m, b) ==
  CASE m.state \in {"STATUS_LINE_END", "STATUS_LINE_END_CR",
                    "STATUS_LINE_END_LF"} -> Len(m.sb) = 0
    [] m.state = "HEADER" -> m.remaining > 0
    [] m.state = "HEADER_FOUND_CR_LF" ->
         IF b \in {SP, HT} THEN Len(m.sb) # 0
         ELSE Len(m.sb) > 0 => Len(flush_entry(get(m)).sb) = 0
    [] OTHER -> TRUE

\* The parser where an assert statement that does not hold, in a run with
\* assertions enabled, throws AssertionError: at the entry of the method,
\* or after the byte was read and, for addHeaderFromString, sb replaced.
assertion_error(m, b) ==
  IF m.state # "HEADER_FOUND_CR_LF" THEN throw(m, "AssertionError")
  ELSE IF b \in {SP, HT} THEN throw(get(m), "AssertionError")
  ELSE throw(flush_entry(get(m)), "AssertionError")

\* resumeOrLF that stays in HEADER_FOUND_LF on a line feed.
resumeOrLF_stays(m, b) ==
  LET from_lf == m.state = "HEADER_FOUND_LF"
      g == IF from_lf THEN m ELSE get(m)
      c == IF from_lf THEN LF ELSE b
  IN IF c = LF THEN [g EXCEPT !.state = "HEADER_FOUND_LF"]
     ELSE IF c \in {SP, HT}
     THEN LET a == checkMaxHeaderSize([g EXCEPT !.sb = Append(@, SP)],
                                      Len(g.sb) + 1)
          IN IF Ended(a) THEN a ELSE [a EXCEPT !.state = "HEADER"]
     ELSE LET a == checkMaxHeaderSize([g EXCEPT !.sb = <<c>>], 1)
          IN IF Ended(a) THEN a ELSE [a EXCEPT !.state = "HEADER"]

\* resumeOrLF
resumeOrLF(m, b) ==
  LET from_lf == m.state = "HEADER_FOUND_LF"
      g == IF from_lf THEN m ELSE get(m)
      c == IF from_lf THEN LF ELSE b
  IN IF c = LF THEN [g EXCEPT !.state = "HEADER_FOUND_CR_LF"]
     ELSE IF c \in {SP, HT}
     THEN LET a == checkMaxHeaderSize([g EXCEPT !.sb = Append(@, SP)],
                                      Len(g.sb) + 1)
          IN IF Ended(a) THEN a ELSE [a EXCEPT !.state = "HEADER"]
     ELSE LET a == checkMaxHeaderSize([g EXCEPT !.sb = <<c>>], 1)
          IN IF Ended(a) THEN a ELSE [a EXCEPT !.state = "HEADER"]

\* resumeOrSecondCR
resumeOrSecondCR(m, c) ==
  LET g == get(m)
  IN IF c \in {CR, LF}
     THEN LET f == flush(g)
          IN IF Ended(f) THEN f
             ELSE IF c = CR THEN [f EXCEPT !.state = "HEADER_FOUND_CR_LF_CR"]
             ELSE finished(f)
     ELSE IF c \in {SP, HT}
     THEN LET a == checkMaxHeaderSize([g EXCEPT !.sb = Append(@, SP)],
                                      Len(g.sb) + 1)
          IN IF Ended(a) THEN a ELSE [a EXCEPT !.state = "HEADER"]
     ELSE LET f == flush(g)
              a == checkMaxHeaderSize([f EXCEPT !.sb = Append(@, c)],
                                      Len(f.sb) + 1)
          IN IF Ended(f) THEN f
             ELSE IF Ended(a) THEN a
             ELSE [a EXCEPT !.state = "HEADER"]

\* resumeOrEndHeaders
resumeOrEndHeaders(m, c) ==
  IF c = LF THEN finished(get(m)) ELSE throw(get(m), "ProtocolException")

\* The switch of parse, for a state in which the loop goes on; b is the byte
\* the buffer gives if the case reads one.
parse_switch(m, b) ==
  CASE m.state = "INITIAL" -> [m EXCEPT !.state = "STATUS_LINE"]
    [] m.state = "STATUS_LINE" -> enter_loop(m, "readResumeStatusLine")
    [] m.state \in {"STATUS_LINE_FOUND_CR", "STATUS_LINE_FOUND_LF"} ->
         readStatusLineFeed(m, b)
    [] m.state = "STATUS_LINE_END" -> maybeStartHeaders(m, b)
    [] m.state \in {"STATUS_LINE_END_CR", "STATUS_LINE_END_LF"} ->
         maybeEndHeaders(m, b)
    [] m.state = "HEADER" -> enter_loop(m, "readResumeHeader")
    [] m.state \in {"HEADER_FOUND_CR", "HEADER_FOUND_LF"} -> resumeOrLF(m, b)
    [] m.state = "HEADER_FOUND_CR_LF" -> resumeOrSecondCR(m, b)
    [] m.state = "HEADER_FOUND_CR_LF_CR" -> resumeOrEndHeaders(m, b)
    [] OTHER -> throw(m, "InternalError")

\* return that reports the end of the headers only on an empty buffer.
return_if_drained(m) ==
  [m EXCEPT !.ppc = "idle",
            !.result = IF m.state = "FINISHED" /\ m.remaining = 0 THEN "true" ELSE "false"]

\* return state == State.FINISHED
return(m) ==
  [m EXCEPT !.ppc = "idle",
            !.result = IF m.state = "FINISHED" THEN "true" ELSE "false"]

\* One step of a parse call.
Step(m, b) ==
  CASE m.ppc = "parse" ->
         IF canContinueParsing(m) THEN parse_switch(m, b) ELSE return(m)
    [] m.ppc = "readResumeStatusLine" -> readResumeStatusLine(m, b)
    [] m.ppc = "readResumeHeader" -> readResumeHeader(m, b)

\* --------------------------------------------------------------- inputs
\* Largest buffer handed to one parse call.
MaxBuf == 3
\* Bytes fed after the end of the line "HTTP/1.1 200".
MaxTail == 5
\* Bytes fed after the end of any other first line.
MaxBadTail == 2
\* Calls that may end with an exception before the caller gives up.
MaxThrows == 2

\* Values of jdk.http.maxHeaderSize: no limit, a limit that the status
\* line "HTTP/1.1 200" and one header line of three characters just fit
\* in, and a limit that the status line "HTTP/1.1 200" fits in but no
\* character after it.
HeaderSizeLimits == {0, 79, 76}

\* The bytes of the header section.
Alphabet == {CR, LF, SP, HT, ":", "A"}

\* First lines: a well-formed one with a reason phrase, one whose code is
\* not decimal, one whose code has a sign, one of another protocol version.
StatusLines ==
  { <<"H", "T", "T", "P", "/", "1", ".", "1", SP, "2", "0", "0", SP, "O", "K">>,
    <<"H", "T", "T", "P", "/", "1", ".", "1", SP, "2", "x", "0">>,
    <<"H", "T", "T", "P", "/", "1", ".", "1", SP, "+", "2", "0">>,
    <<"H", "T", "T", "P", "/", "2", ".", "0", SP, "2", "0", "0">> }

PlainStatusLine ==
  <<"H", "T", "T", "P", "/", "1", ".", "1", SP, "2", "0", "0">>

\* Position of the first CR or LF of a byte sequence, 0 when there is none.
FirstLineEnd(bytes) ==
  IF \E i \in 1 .. Len(bytes) : bytes[i] \in {CR, LF}
  THEN CHOOSE i \in 1 .. Len(bytes) :
         bytes[i] \in {CR, LF} /\ \A j \in 1 .. (i - 1) : bytes[j] \notin {CR, LF}
  ELSE 0

\* Bytes that may still follow the first line end of a byte sequence.
TailLeft(bytes) ==
  LET k == FirstLineEnd(bytes)
      budget == IF SubSeq(bytes, 1, k - 1) = PlainStatusLine
                THEN MaxTail ELSE MaxBadTail
  IN budget - (Len(bytes) - k)

\* The bytes a buffer may give next: the first line follows one of
\* StatusLines until a CR or LF ends it, the bytes after it are any of
\* Alphabet; bytes left in the buffer that returned true are never read.
NextBytes ==
  IF state = "FINISHED" THEN Alphabet
  ELSE IF FirstLineEnd(fed) = 0
  THEN {line[Len(fed) + 1] : line \in
          {l \in StatusLines : Len(l) > Len(fed) /\ SubSeq(l, 1, Len(fed)) = fed}}
       \cup {CR, LF}
  ELSE IF TailLeft(fed) > 0 THEN Alphabet ELSE {}

\* Sizes of the buffer the next parse call may be given.
BufferSizes ==
  IF state = "FINISHED" THEN 0 .. MaxBuf
  ELSE IF FirstLineEnd(fed) = 0 THEN 0 .. MaxBuf
  ELSE {n \in 0 .. MaxBuf : n <= TailLeft(fed)}

\* -------------------------------------------------------------- actions
Exceptions == {"ProtocolException", "NumberFormatException", "InternalError",
               "NullPointerException", "AssertionError"}

\* The parser and the frame become m, and the bytes read are recorded.
Becomes(m, read) ==
  /\ state' = m.state
  /\ sb' = m.sb
  /\ statusLine' = m.statusLine
  /\ responseCode' = m.responseCode
  /\ headers' = m.headers
  /\ privateMap' = m.privateMap
  /\ size' = m.size
  /\ ppc' = m.ppc
  /\ remaining' = m.remaining
  /\ count' = m.count
  /\ max' = m.max
  /\ result' = m.result
  /\ fed' = fed \o read
  /\ thrown' = IF m.result \in Exceptions THEN thrown + 1 ELSE thrown
  /\ UNCHANGED <<mapper_vars, MAX_HTTP_HEADER_SIZE>>

\* A step of the call in which the buffer gives b if a byte is read.
Takes(m, b) == Becomes(m, IF m.remaining < remaining THEN <<b>> ELSE <<>>)

\* parse(input): the call, with a buffer of n bytes.
parse ==
  /\ ppc = "idle"
  /\ thrown < MaxThrows
  /\ \E n \in BufferSizes :
       Becomes([Machine EXCEPT !.ppc = "parse", !.remaining = n,
                               !.result = "none"], <<>>)

\* The loop test fails: parse returns.
parse_return ==
  /\ ppc = "parse"
  /\ ~canContinueParsing(Machine)
  /\ Becomes(return(Machine), <<>>)

\* The cases of the switch, one action each; a case that reads a byte takes
\* it from NextBytes.
case_INITIAL ==
  /\ ppc = "parse"
  /\ canContinueParsing(Machine)
  /\ state = "INITIAL"
  /\ Becomes(parse_switch(Machine, LF), <<>>)

case_STATUS_LINE ==
  /\ ppc = "parse"
  /\ canContinueParsing(Machine)
  /\ state = "STATUS_LINE"
  /\ Becomes(parse_switch(Machine, LF), <<>>)

case_STATUS_LINE_FOUND_CR ==
  /\ ppc = "parse"
  /\ canContinueParsing(Machine)
  /\ state = "STATUS_LINE_FOUND_CR"
  /\ \E b \in NextBytes : Takes(parse_switch(Machine, b), b)

case_STATUS_LINE_FOUND_LF ==
  /\ ppc = "parse"
  /\ canContinueParsing(Machine)
  /\ state = "STATUS_LINE_FOUND_LF"
  /\ Becomes(parse_switch(Machine, LF), <<>>)

case_STATUS_LINE_END ==
  /\ ppc = "parse"
  /\ canContinueParsing(Machine)
  /\ state = "STATUS_LINE_END"
  /\ \E b \in NextBytes : Takes(parse_switch(Machine, b), b)

case_STATUS_LINE_END_CR ==
  /\ ppc = "parse"
  /\ canContinueParsing(Machine)
  /\ state = "STATUS_LINE_END_CR"
  /\ \E b \in NextBytes : Takes(parse_switch(Machine, b), b)

case_STATUS_LINE_END_LF ==
  /\ ppc = "parse"
  /\ canContinueParsing(Machine)
  /\ state = "STATUS_LINE_END_LF"
  /\ Becomes(parse_switch(Machine, LF), <<>>)

case_HEADER ==
  /\ ppc = "parse"
  /\ canContinueParsing(Machine)
  /\ state = "HEADER"
  /\ Becomes(parse_switch(Machine, LF), <<>>)

case_HEADER_FOUND_CR ==
  /\ ppc = "parse"
  /\ canContinueParsing(Machine)
  /\ state = "HEADER_FOUND_CR"
  /\ \E b \in NextBytes : Takes(parse_switch(Machine, b), b)

case_HEADER_FOUND_LF ==
  /\ ppc = "parse"
  /\ canContinueParsing(Machine)
  /\ state = "HEADER_FOUND_LF"
  /\ Becomes(parse_switch(Machine, LF), <<>>)

case_HEADER_FOUND_CR_LF ==
  /\ ppc = "parse"
  /\ canContinueParsing(Machine)
  /\ state = "HEADER_FOUND_CR_LF"
  /\ \E b \in NextBytes : Takes(parse_switch(Machine, b), b)

case_HEADER_FOUND_CR_LF_CR ==
  /\ ppc = "parse"
  /\ canContinueParsing(Machine)
  /\ state = "HEADER_FOUND_CR_LF_CR"
  /\ \E b \in NextBytes : Takes(parse_switch(Machine, b), b)

\* One test of the while loop of readResumeStatusLine / readResumeHeader.
loop_readResumeStatusLine ==
  /\ ppc = "readResumeStatusLine"
  /\ IF remaining = 0
     THEN Becomes(readResumeStatusLine(Machine, LF), <<>>)
     ELSE \E b \in NextBytes : Takes(readResumeStatusLine(Machine, b), b)

loop_readResumeHeader ==
  /\ ppc = "readResumeHeader"
  /\ IF remaining = 0
     THEN Becomes(readResumeHeader(Machine, LF), <<>>)
     ELSE \E b \in NextBytes : Takes(readResumeHeader(Machine, b), b)

\* An assert statement of the case fails and assertions are enabled (-ea);
\* with assertions disabled the case goes on as the case_ actions say.
assert_fails ==
  /\ ppc = "parse"
  /\ canContinueParsing(Machine)
  /\ \E b \in (IF state = "HEADER_FOUND_CR_LF" THEN NextBytes ELSE {LF}) :
       /\ ~asserts(Machine, b)
       /\ Takes(assertion_error(Machine, b), b)

NextParser ==
  \/ parse
  \/ parse_return
  \/ case_INITIAL
  \/ case_STATUS_LINE
  \/ case_STATUS_LINE_FOUND_CR
  \/ case_STATUS_LINE_FOUND_LF
  \/ case_STATUS_LINE_END
  \/ case_STATUS_LINE_END_CR
  \/ case_STATUS_LINE_END_LF
  \/ case_HEADER
  \/ case_HEADER_FOUND_CR
  \/ case_HEADER_FOUND_LF
  \/ case_HEADER_FOUND_CR_LF
  \/ case_HEADER_FOUND_CR_LF_CR
  \/ loop_readResumeStatusLine
  \/ loop_readResumeHeader
  \/ assert_fails

\* A parser on its own: the mapper is constructed and never called.
InitParser ==
  /\ Construct({1}, {1}, {1})
  /\ rs_size = 1
  /\ memory_type = "mtGC"
  /\ ~AlwaysPreTouch
  /\ \E limit \in HeaderSizeLimits : Http1HeaderParser(limit)

SpecParser == InitParser /\ [][NextParser]_vars


\* ------------------------------------------------------------ C26 .. C30
\* The last parse call returned (it did not throw).
ParseReturned == ppc = "idle" /\ result \in {"true", "false"}

\* C26 - parse result: a parse call that returns has returned true exactly
\* when the parser is in state FINISHED, and a call that returned false has
\* left no byte in its buffer; bytes are left only in a buffer on which
\* true was returned.
C26_ParseResult ==
  ParseReturned =>
    /\ (result = "true") <=> (state = "FINISHED")
    /\ result = "false" => remaining = 0
    /\ remaining > 0 => result = "true"

\* A call consumed bytes, reached the end of a header block that holds a
\* header, and returned true on a buffer that still holds bytes.
C26_Witness ==
  /\ ParseReturned
  /\ result = "true"
  /\ state = "FINISHED"
  /\ remaining > 0
  /\ headers # Some(EmptyMap)
  /\ thrown = 0

\* C27 - FINISHED is absorbing: from a parser in state FINISHED every step
\* leaves the state, the status line, the response code and the headers as
\* they are and reads no byte, and a parse call made in that state returns
\* true at its first loop test with its buffer untouched.
C27_FinishedAbsorbing ==
  [][state = "FINISHED" =>
       /\ state' = "FINISHED"
       /\ statusLine' = statusLine
       /\ responseCode' = responseCode
       /\ headers' = headers
       /\ fed' = fed
       /\ thrown' = thrown
       /\ ppc # "idle" =>
            ppc = "parse" /\ ppc' = "idle" /\ result' = "true"
            /\ remaining' = remaining]_vars

\* A call made after the end of the headers, on a full buffer, returned
\* true: the call that reaches FINISHED reads at least one byte, so a buffer
\* of MaxBuf bytes left whole was given to a later call.
C27_Witness ==
  /\ ParseReturned
  /\ result = "true"
  /\ state = "FINISHED"
  /\ remaining = MaxBuf
  /\ headers # Some(EmptyMap)


\* A new parser at the first loop test of a parse call on n bytes.
NewMachine(n) ==
  [state |-> "INITIAL", sb |-> <<>>, statusLine |-> Null, responseCode |-> 0,
   headers |-> Null, privateMap |-> Some(EmptyMap), size |-> 0,
   ppc |-> "parse", remaining |-> n, count |-> 0, max |-> 0,
   result |-> "none"]

\* The call run to its end, the buffer giving the bytes in order.
RECURSIVE Run(_, _)
Run(m, bytes) ==
  IF Ended(m) THEN m
  ELSE LET b == IF bytes = <<>> THEN LF ELSE Head(bytes)
           n == Step(m, b)
       IN Run(n, IF n.remaining < m.remaining THEN Tail(bytes) ELSE bytes)

\* One parse call of a new parser on a single buffer that holds the bytes
\* read so far followed by the bytes left in the current buffer.
SingleBuffer == Run(NewMachine(Len(fed) + remaining), fed)

\* What a caller observes of a parser value that read consumed bytes.
Outcome(m, consumed) ==
  [state |-> m.state, statusLine |-> m.statusLine,
   responseCode |-> m.responseCode, headers |-> m.headers,
   result |-> m.result, consumed |-> consumed]

\* No call before the last one threw.
FirstOutcome ==
  /\ ppc = "idle"
  /\ result # "none"
  /\ thrown = 0 \/ (thrown = 1 /\ result \in Exceptions)

\* C28 - chunking independence: when a call ends, and no earlier call
\* threw, the state, status line, response code, headers, the value
\* returned or exception thrown and the number of bytes consumed are those
\* of a single call on one buffer holding the same bytes.
C28_ChunkingIndependence ==
  FirstOutcome =>
    Outcome(Machine, Len(fed)) =
      Outcome(SingleBuffer, Len(fed) + remaining - SingleBuffer.remaining)

\* A header line read over several calls ran into the header size limit:
\* the call that threw counted fewer characters than the line holds beyond
\* its first.
C28_Witness ==
  /\ FirstOutcome
  /\ result = "ProtocolException"
  /\ state = "HEADER"
  /\ MAX_HTTP_HEADER_SIZE > 0
  /\ size + Len(sb) + 32 > MAX_HTTP_HEADER_SIZE
  /\ count < Len(sb) - 1


\* States whose case of the switch reads no byte.
NeedsNoInput ==
  {"INITIAL", "STATUS_LINE_FOUND_LF", "STATUS_LINE_END_LF", "HEADER_FOUND_LF"}

\* A step of the calling thread inside parse.
CallStep ==
  \/ parse_return
  \/ case_INITIAL
  \/ case_STATUS_LINE
  \/ case_STATUS_LINE_FOUND_CR
  \/ case_STATUS_LINE_FOUND_LF
  \/ case_STATUS_LINE_END
  \/ case_STATUS_LINE_END_CR
  \/ case_STATUS_LINE_END_LF
  \/ case_HEADER
  \/ case_HEADER_FOUND_CR
  \/ case_HEADER_FOUND_LF
  \/ case_HEADER_FOUND_CR_LF
  \/ case_HEADER_FOUND_CR_LF_CR
  \/ loop_readResumeStatusLine
  \/ loop_readResumeHeader
  \/ assert_fails

\* The thread that called parse keeps running until the call ends.
SpecParserFair == SpecParser /\ WF_vars(CallStep)

\* A step of a call makes progress: it reads a byte, or ends the call, or is
\* a whole iteration of the loop of parse that reads nothing, made in a
\* state of NeedsNoInput and leading out of NeedsNoInput, or enters
\* readResumeStatusLine / readResumeHeader with a byte to read, or leaves
\* that method for want of input after reading at least one byte.
Progress ==
  ppc # "idle" =>
    \/ remaining' = remaining - 1
    \/ ppc' = "idle"
    \/ /\ ppc = "parse" /\ ppc' = "parse" /\ remaining' = remaining
       /\ state \in NeedsNoInput
       /\ state' \notin NeedsNoInput
    \/ /\ ppc = "parse" /\ ppc' \in {"readResumeStatusLine", "readResumeHeader"}
       /\ remaining' = remaining /\ remaining > 0
       /\ state' = state
    \/ /\ ppc \in {"readResumeStatusLine", "readResumeHeader"} /\ ppc' = "parse"
       /\ remaining = 0 /\ remaining' = 0 /\ count > 0
       /\ state' = state

\* C29 - parse terminates: every parse call ends, by returning or throwing;
\* each iteration of its loop reads at least one byte or is made in one of
\* INITIAL, STATUS_LINE_FOUND_LF, STATUS_LINE_END_LF, HEADER_FOUND_LF and
\* leads to a state outside these four, which needs a byte to be left.
C29_Terminates ==
  /\ [][Progress]_vars
  /\ (ppc # "idle") ~> (ppc = "idle")

\* A call ended at the end of a header block whose lines end with a bare LF:
\* its last iterations were made in HEADER_FOUND_LF, without input, and in
\* HEADER_FOUND_CR_LF, on the last byte of the buffer.
C29_Witness ==
  /\ ParseReturned
  /\ state = "FINISHED"
  /\ remaining = 0
  /\ Len(fed) >= 2
  /\ fed[Len(fed)] = LF
  /\ fed[Len(fed) - 1] = LF
  /\ headers # Some(EmptyMap)


\* The status line is one the claim calls malformed: it does not start with
\* "HTTP/1.", or is shorter than 12 characters, or its characters 9..11 are
\* not three decimal digits.
Malformed(line) ==
  \/ ~startsWith(line, HTTP_1)
  \/ Len(line) < 12
  \/ \E i \in 10 .. 12 : digit(line[i]) < 0

\* C30 - failure mode: a parse call returns a boolean or throws
\* ProtocolException and nothing else, and a parser whose status line is
\* malformed is never in state FINISHED.
C30_FailureMode ==
  /\ result \in {"none", "true", "false", "ProtocolException"}
  /\ statusLine # Null /\ Malformed(Get(statusLine)) => state # "FINISHED"


\* ------------------------------------------------------------------ C31
\* The states in which maybeStartHeaders and maybeEndHeaders are entered.
StatusLineEnd ==
  {"STATUS_LINE_END", "STATUS_LINE_END_CR", "STATUS_LINE_END_LF"}

\* sb is empty in the states of StatusLineEnd, the assert statements of the
\* case the loop of parse is about to run hold whatever byte it reads, and
\* no call ended with an AssertionError.
AssertionsHold ==
  /\ state \in StatusLineEnd => sb = <<>>
  /\ ppc = "parse" /\ canContinueParsing(Machine) =>
       \A b \in Alphabet : asserts(Machine, b)
  /\ result # "AssertionError"

====
